---- MODULE Spec2Model ----
(***************************************************************************)
(* A model of conreg: the discovery engine (instance state machine, the    *)
(* heartbeat-check timer and the cleanup timer) and the Raft state machine *)
(* with its event-dispatched command handlers and the config store.        *)
(*                                                                         *)
(* SpecDisc  - server/src/discovery/discovery.rs, one Discovery sub-map    *)
(* SpecRaft  - server/src/raft/store/mod.rs, server/src/event/mod.rs,      *)
(*             server/src/config/server/mod.rs on a standalone node        *)
(* SpecCluster - the same on a cluster of two nodes                        *)
(* SpecReplay - a log prefix applied, and applied again after a restart    *)
(* SpecGate  - conreg-server/src/namespace/server/mod.rs and auth/mod.rs   *)
(* SpecWatch - the long poll /config/watch of config/server/api.rs         *)
(* SpecClient - conreg-client/src/config.rs, the compensate task           *)
(* SpecForward - server/src/raft/api: /write and the forward to the leader *)
(* SpecStore - server/src/raft/store/sled_log_store.rs                     *)
(* SpecSnap  - the snapshots of server/src/raft/store/mod.rs and GET /read *)
(* SpecCascade - the deletion of a namespace with its configs              *)
(* SpecReload - conreg-client/src/config.rs, the watch task and listeners  *)
(* SpecBeat  - client/src/discovery.rs, the heartbeat task of a client     *)
(* SpecAddr  - client/src/network/mod.rs, ServerAddr::build_url            *)
(* SpecYaml  - Configs::from_contents: the merge and the flattening        *)
(* SpecNsRace - get_namespace next to the apply of a namespace command     *)
(* SpecLocalCache - server/src/cache/local_cache.rs, set, remove and get   *)
(* SpecDiscMap - DiscoveryManager::try_get_discovery, the map of sub-maps  *)
(* SpecRefresh - the compensate task with fetches that fail                *)
(* SpecWatchTask - the loop of the watch task with requests that fail      *)
(* SpecHops - /write between nodes that hold views of the leader           *)
(* SpecToken - login, logout and the bearer token of an admin request      *)
(* SpecHandlerErrors - two replicas and handlers that end with an error    *)
(* SpecRecovery - ConfigManager::recovery of a history row                 *)
(***************************************************************************)
EXTENDS Integers, Sequences, FiniteSets, TLC

(***************************************************************************)
(* Bounds of the discovery model.                                          *)
(***************************************************************************)
\* the local clock runs from 0 to MaxTime seconds
MaxTime == 12

(***************************************************************************)
(* Program constants of the discovery engine.                              *)
(***************************************************************************)
\* Duration::from_secs(5): the heartbeat timeout handed to the check timer
HEARTBEAT_TIMEOUT == 5
\* `instance.lost_heartbeats >= 3`: lost periods after which it is Down
MAX_LOST_HEARTBEATS == 3

\* the service ids and the endpoints (ip, port) that requests name
ReqServices == {"svc1"}
ReqEndpoints == {<<"10.0.0.1", 9000>>, <<"10.0.0.2", 9000>>}

(***************************************************************************)
(* Bounds of the Raft model.                                               *)
(***************************************************************************)
\* number of entries the replicated log of a single node may hold
MaxLog == 3
\* number of entries the replicated log of a cluster of two nodes may hold
MaxClusterLog == 1
\* length of the log prefixes that are replayed
MaxPrefix == 3
\* number of entries the log may hold while namespace requests are served
MaxGateLog == 2
\* number of change events that are published
MaxEvents == 2
\* the seconds the server of the long poll runs
MaxWatchClock == 30
\* number of changes made to the configs a client subscribes to
MaxChanges == 2
\* the clock of the Raft model runs from 0 to MaxClock milliseconds
MaxClock == 1

\* the replicas; writes are submitted on the leader
Nodes == {"n1", "n2"}
Leader == "n1"
\* the (namespace_id, id) and the contents that upsert requests name
ReqConfigKeys == {<<"public", "test.yaml">>}
ReqContents == {"age: 3", "age: 4"}

VARIABLES
    services,   \* Discovery.services: service_id -> Vec<ServiceInstance>
    now,        \* Local::now() of the discovery node, in seconds
    resp,       \* the operation that ran last and what it returned
    log,        \* the committed Raft log: a sequence of RaftRequest
    sm,         \* per node: StateMachineData (last_applied_log, data)
    snapshot,   \* per node: the StoredSnapshot in the sm_meta tree, or None
    bus,        \* per node: the events queued in the EVENT_BUS channel
    handling,   \* per node: the events whose process_event is in progress
    db,         \* per node: the SQL tables config, config_history, namespace, service
    config_cache,        \* per node: ConfigManager.config_cache
    enable_cache_config, \* Args.enable_cache_config
    next_id,    \* per node: the state of the id generator
    client,     \* the admin client of the leader and its current request
    clock,      \* Local::now() of the Raft nodes, in milliseconds
    membership, \* the nodes the cluster was initialized with
    replay,     \* the progress of a replay of a log prefix
    ns_cache,   \* NamespaceManager.cache of the leader: id -> Namespace
    ns_resp,    \* the namespace or config request that ran last and its response
    wclock,     \* the time of the server that serves /config/watch, in seconds
    watcher,    \* the /config/watch request: its position, receiver and response
    published,  \* the ConfigChangeEvent values sent to the broadcast channel
    srv,        \* the config server as a client sees it: config id -> content
    view,       \* the client: the flattened configs of CONFIGS
    comp,       \* the client: the compensate task and its sleep
    stale_age,  \* the seconds for which the view has differed from the server
    changes,    \* the number of changes made on the config server
    fwd,        \* the POST /write request that ran last and its response
    tree,       \* the sled Db of the log store: the trees logs and meta as read
    disk,       \* the part of the sled Db that is flushed to the disk
    acked,      \* what the calls of the log store reported as done
    store_resp, \* the call of the log store that ran last and what it returned
    heap,       \* the Arc<RwLock<StateMachineData>> allocations of a node
    sms,        \* the StateMachineStore of the node and the handle of its App
    sm_db,      \* the sled Db of the node: the tree sm_meta as read and as flushed
    snap_task,  \* the build_snapshot and the install_snapshot in progress
    snap_hist,  \* the snapshots written so far and the one completed last
    snap_resp,  \* the read or get_current_snapshot that ran last and its result
    wtask,      \* the watch task of the config client: its position and locals
    notified,   \* the calls of the config listeners, in order
    hb,         \* the heartbeat task of the discovery client
    net,        \* the server addresses of a client and its outbound calls
    yaml,       \* documents handed to Configs::from_contents and its results
    nsrace,     \* the namespace table and cache of one node, a write being applied, reads
    lcache,     \* the local cache of one node: memory, disk, spawned disk writes
    dmgr,       \* the DiscoveryManager of one node: the map of sub-maps and its callers
    hop,        \* a POST /write on its way through the nodes and each node's view of the leader
    tok         \* the bearer tokens: the CacheWrite entries and each node's local cache

discVars == <<services, now, resp>>
raftVars == <<log, sm, snapshot, bus, handling, db, config_cache,
              enable_cache_config, next_id, client, clock, membership, replay>>
vars == <<services, now, resp, log, sm, snapshot, bus, handling, db,
          config_cache, enable_cache_config, next_id, client, clock, membership, replay,
          ns_cache, ns_resp, wclock, watcher, published,
          srv, view, comp, stale_age, changes,
          fwd, tree, disk, acked, store_resp,
          heap, sms, sm_db, snap_task, snap_hist, snap_resp, wtask, notified, hb, net, yaml,
          nsrace, lcache, dmgr, hop, tok>>
\* the state of the namespace manager and of its requests
gateVars == <<ns_cache, ns_resp>>
\* the state of the long poll of config changes
watchVars == <<wclock, watcher, published>>
\* the state of the config client and of the server it polls
clientVars == <<srv, view, comp, stale_age, changes>>
\* the state of the /write endpoint
fwdVars == <<fwd>>
\* the state of the log store
storeVars == <<tree, disk, acked, store_resp>>
\* the state of the snapshots of the state machine
snapVars == <<heap, sms, sm_db, snap_task, snap_hist, snap_resp>>
\* the state of the parts modelled after the log store
reloadVars == <<wtask, notified>>

beatVars == <<hb>>

addrVars == <<net>>

yamlVars == <<yaml>>

\* the variables of the models of single components
tailVars == <<nsrace, lcache, dmgr, hop, tok>>
\* the state of the earlier models
priorVars == <<discVars, raftVars, gateVars, watchVars, clientVars, fwdVars, storeVars,
               snapVars, reloadVars, beatVars, addrVars, yamlVars>>
\* the state outside the race of the namespace cache
nsraceRest == <<priorVars, lcache, dmgr, hop, tok>>
\* the state outside the local cache
lcacheRest == <<priorVars, nsrace, dmgr, hop, tok>>
\* the state outside the discovery manager
dmgrRest == <<priorVars, nsrace, lcache, hop, tok>>
\* the state outside the path of a forwarded write
hopRest == <<priorVars, nsrace, lcache, dmgr, tok>>
\* the state outside the bearer tokens
tokRest == <<priorVars, nsrace, lcache, dmgr, hop>>

lateVars == <<snapVars, reloadVars, beatVars, addrVars, yamlVars, tailVars>>
\* the state outside the discovery engine and the Raft state machine
restVars == <<gateVars, watchVars, clientVars, fwdVars, storeVars,
    lateVars>>
\* the state outside the namespace manager, the discovery engine and Raft
gateRest == <<watchVars, clientVars, fwdVars, storeVars,
    lateVars>>
\* the state outside the long poll
watchRest == <<discVars, raftVars, gateVars, clientVars, fwdVars, storeVars,
    lateVars>>
\* the state outside the config client
clientRest == <<discVars, raftVars, gateVars, watchVars, fwdVars, storeVars,
    lateVars>>
\* the state outside Raft and the /write endpoint
fwdRest == <<discVars, gateVars, watchVars, clientVars, storeVars,
    lateVars>>
\* the state outside the log store
storeRest == <<discVars, raftVars, gateVars, watchVars, clientVars, fwdVars,
    lateVars>>
\* the state outside the config client and its watch task
reloadRest == <<discVars, raftVars, gateVars, watchVars, fwdVars, storeVars, snapVars,
                beatVars, addrVars, yamlVars,
              tailVars>>
\* the state outside the discovery engine and the heartbeat task of a client
beatRest == <<raftVars, gateVars, watchVars, clientVars, fwdVars, storeVars, snapVars,
              reloadVars, addrVars, yamlVars,
              tailVars>>
\* the state outside the server addresses of a client
addrRest == <<discVars, raftVars, gateVars, watchVars, clientVars, fwdVars, storeVars,
              snapVars, reloadVars, beatVars, yamlVars,
              tailVars>>
\* the state outside the documents of Configs::from_contents
yamlRest == <<discVars, raftVars, gateVars, watchVars, clientVars, fwdVars, storeVars,
              snapVars, reloadVars, beatVars, addrVars,
              tailVars>>
\* the state outside the snapshots of the state machine
snapRest == <<discVars, raftVars, gateVars, watchVars, clientVars, fwdVars, storeVars,
              reloadVars, beatVars, addrVars, yamlVars,
              tailVars>>

(***************************************************************************)
(* ServiceInstance                                                         *)
(***************************************************************************)
Ready == <<"Ready">>
Up == <<"Up">>
Down == <<"Down">>
Offline == <<"Offline">>
\* format!("lost heartbeats({})", instance.lost_heartbeats)
SickMsg(n) ==
    CASE n = 1 -> "lost heartbeats(1)"
      [] n = 2 -> "lost heartbeats(2)"
      [] n = 3 -> "lost heartbeats(3)"
      [] OTHER -> "lost heartbeats(?)"
Sick(n) == <<"Sick", SickMsg(n)>>

\* format!("{:x}", md5::compute(format!("{}:{}", ip, port)))
generate_id(ip, port) ==
    CASE ip = "10.0.0.1" /\ port = 9000 -> "d58f0687658cafe294eb1ae6b69872f6"
      [] ip = "10.0.0.2" /\ port = 9000 -> "2c7b44c4a2cdc5c9996acc38680e8109"
      [] ip = "10.0.0.3" /\ port = 9000 -> "3254e2e0d1364a5db1fd70c061537b0c"
      [] OTHER -> "ffffffffffffffffffffffffffffffff"

\* ServiceInstance::new that starts an instance as Up (a wrong initial status)
NewInstanceUp(service_id, ip, port) ==
    [id |-> generate_id(ip, port),
     service_id |-> service_id,
     ip |-> ip,
     port |-> port,
     status |-> Up,
     last_heartbeat |-> now,
     lost_heartbeats |-> 0]

\* ServiceInstance::new
NewInstance(service_id, ip, port) ==
    [id |-> generate_id(ip, port),
     service_id |-> service_id,
     ip |-> ip,
     port |-> port,
     status |-> Ready,
     last_heartbeat |-> now,
     lost_heartbeats |-> 0]

\* ServiceInstance::update_heartbeat
update_heartbeat(inst) == [inst EXCEPT !.last_heartbeat = now]

\* ServiceInstance::is_heartbeat_timeout
is_heartbeat_timeout(inst, timeout) == now - inst.last_heartbeat > timeout

\* is_available that only excludes Down (a wrong availability test)
is_available_not_down(inst) == inst.status # Down

\* ServiceInstance::is_available
is_available(inst) == inst.status = Up

(***************************************************************************)
(* Vec helpers                                                             *)
(***************************************************************************)
Range(seq) == {seq[i] : i \in 1..Len(seq)}

NoneResp == [op |-> "none"]

(***************************************************************************)
(* Discovery: the operations on the instance map                           *)
(***************************************************************************)
\* self.services.get(service_id).map(..).unwrap_or_else(|| vec![])
InstancesOf(service_id) ==
    IF service_id \in DOMAIN services THEN services[service_id] ELSE <<>>

\* Discovery::get_service_instances
get_service_instances(service_id) == InstancesOf(service_id)

\* Discovery::get_available_service_instances
get_available_service_instances(service_id) ==
    SelectSeq(InstancesOf(service_id), is_available)

\* DashMap::entry(key).or_insert(value)
EntryOrInsert(map, key, value) ==
    IF key \in DOMAIN map
    THEN map
    ELSE [k \in DOMAIN map \cup {key} |-> IF k = key THEN value ELSE map[k]]

\* Discovery::register_service, called with vec![] by the manager
DiscRegisterService(service_id) ==
    /\ services' = EntryOrInsert(services, service_id, <<>>)
    /\ resp' = [op |-> "register_service", service |-> service_id]
    /\ UNCHANGED <<now, raftVars, restVars>>

\* Discovery::deregister_service
DiscDeregisterService(service_id) ==
    /\ services' = [k \in DOMAIN services \ {service_id} |-> services[k]]
    /\ resp' = [op |-> "deregister_service", service |-> service_id]
    /\ UNCHANGED <<now, raftVars, restVars>>

\* a retain that removes nothing
RetainAll(instances, id) == instances

\* instances.retain(|item| item.id != instance.id)
RetainOthers(instances, id) ==
    LET NotSame(item) == item.id # id
    IN  SelectSeq(instances, NotSame)

\* Discovery::register_instance: the instance map and the answer
register_instance(service_id, ip, port) ==
    LET instance == NewInstance(service_id, ip, port)
        map == EntryOrInsert(services, service_id, <<>>)
        retained == RetainOthers(map[service_id], instance.id)
    IN  /\ services' = [map EXCEPT ![service_id] = Append(retained, instance)]
        /\ resp' = [op |-> "register_instance", service |-> service_id,
                    id |-> instance.id, body |-> instance,
                    replaced |-> Len(map[service_id]) - Len(retained)]

\* POST /instance/register
DiscRegisterInstance(service_id, ip, port) ==
    /\ register_instance(service_id, ip, port)
    /\ UNCHANGED <<now, raftVars, restVars>>

\* Discovery::deregister_instance
DiscDeregisterInstance(service_id, instance_id) ==
    LET NotSame(item) == item.id # instance_id
    IN  /\ services' = IF service_id \in DOMAIN services
                       THEN [services EXCEPT ![service_id] = SelectSeq(@, NotSame)]
                       ELSE services
        /\ resp' = [op |-> "deregister_instance", service |-> service_id,
                    id |-> instance_id]
        /\ UNCHANGED <<now, raftVars, restVars>>

\* the body of the loop of Discovery::heartbeat for the matching instance
HeartbeatInstance(inst) == [update_heartbeat(inst) EXCEPT !.status = Up]

\* Discovery::heartbeat: the instance map and the answer
heartbeat(service_id, instance_id) ==
    LET found == {i \in 1..Len(InstancesOf(service_id)) :
                     InstancesOf(service_id)[i].id = instance_id}
        \* the loop returns at the first match
        first == CHOOSE i \in found : \A j \in found : i <= j
    IN  /\ IF found # {}
           THEN /\ services' = [services EXCEPT ![service_id][first] =
                                    HeartbeatInstance(@)]
                /\ resp' = [op |-> "heartbeat", service |-> service_id,
                            id |-> instance_id, result |-> "Ok",
                            was |-> services[service_id][first].status]
           ELSE /\ services' = services
                /\ resp' = [op |-> "heartbeat", service |-> service_id,
                            id |-> instance_id, result |-> "NoInstanceFound",
                            was |-> <<"None">>]

\* POST /heartbeat
DiscHeartbeat(service_id, instance_id) ==
    /\ heartbeat(service_id, instance_id)
    /\ UNCHANGED <<now, raftVars, restVars>>

\* the closure the heartbeat-check timer runs on every instance
CheckInstance(inst) ==
    IF inst.lost_heartbeats >= MAX_LOST_HEARTBEATS
    THEN [inst EXCEPT !.status = Down]
    ELSE IF is_heartbeat_timeout(inst, HEARTBEAT_TIMEOUT)
         THEN [inst EXCEPT !.lost_heartbeats = @ + 1,
                           !.status = Sick(inst.lost_heartbeats + 1)]
         ELSE inst

\* one tick of Discovery::start_heartbeat_check_timer
HeartbeatCheckTick ==
    /\ services' = [s \in DOMAIN services |->
                        [i \in 1..Len(services[s]) |-> CheckInstance(services[s][i])]]
    /\ resp' = [op |-> "heartbeat_check"]
    /\ UNCHANGED <<now, raftVars, restVars>>

\* the retain predicate of the cleanup timer
NotDown(inst) == inst.status # Down

\* one tick of Discovery::start_cleanup_timer
CleanupTick ==
    /\ services' = [s \in DOMAIN services |-> SelectSeq(services[s], NotDown)]
    /\ resp' = [op |-> "cleanup"]
    /\ UNCHANGED <<now, raftVars, restVars>>

\* GET /instance/available: Discovery::get_available_service_instances
QueryAvailable(service_id) ==
    /\ resp' = [op |-> "available", service |-> service_id,
                body |-> get_available_service_instances(service_id)]
    /\ UNCHANGED <<services, now, raftVars, restVars>>

\* the local clock moves on
AdvanceClock ==
    /\ now < MaxTime
    /\ \E d \in 1..(MaxTime - now) : now' = now + d
    /\ resp' = [op |-> "clock"]
    /\ UNCHANGED <<services, raftVars, restVars>>

(***************************************************************************)
(* Raft state machine, event bus and config store: data                    *)
(***************************************************************************)
None == [none |-> TRUE]

\* ConfigEntry::gen_md5: format!("{:x}", md5::compute(content))
gen_md5(content) ==
    CASE content = "age: 3" -> "6a58146c8a021a338010288b90c4c924"
      [] content = "age: 4" -> "354b410c5ecfc37c8138a2136b93f93c"
      [] OTHER -> "d41d8cd98f00b204e9800998ecf8427e"

\* StateMachineData::default
DefaultStateMachine == [last_applied_log |-> 0, data |-> <<>>]

EmptyDb == [config |-> {}, config_history |-> {}, namespace |-> {}, service |-> {}]

\* the commands that apply_entry hands to the event bus
EventCommands ==
    {"SetConfig", "DeleteConfig", "UpdateConfig", "UpsertNamespace", "DeleteNamespace"}
\* the discovery commands that handle_raft_request handles
DiscoveryCommands == {"RegisterService", "DeregisterService"}

(***************************************************************************)
(* SQL statements of the config store                                      *)
(***************************************************************************)
\* the config table is keyed by id_ and by (namespace_id, id)
ConfigKeyConflict(rows, entry) ==
    \E r \in rows :
        \/ r.id_ = entry.id_
        \/ (r.namespace_id = entry.namespace_id /\ r.id = entry.id)
\* the config_history table is keyed by id_
HistoryKeyConflict(rows, hid) == \E r \in rows : r.id_ = hid

\* SELECT * FROM config WHERE namespace_id = ? AND id = ? (fetch_optional)
SelectConfig(d, namespace_id, id) ==
    LET hit == {r \in d.config : r.namespace_id = namespace_id /\ r.id = id}
    IN  IF hit = {} THEN None ELSE CHOOSE r \in hit : TRUE

\* &entry.id_ + entry.update_time.timestamp_millis()
HistoryId(entry) == entry.id_ + entry.update_time

\* the row ConfigManager::append_history inserts
HistoryRow(entry) ==
    [id_ |-> HistoryId(entry),
     namespace_id |-> entry.namespace_id,
     id |-> entry.id,
     content |-> entry.content,
     description |-> entry.description,
     create_time |-> entry.create_time,
     update_time |-> entry.update_time,
     md5 |-> entry.md5]

\* ConfigManager::append_history: [ok, db]
append_history(d, entry) ==
    IF HistoryKeyConflict(d.config_history, HistoryId(entry))
    THEN [ok |-> FALSE, db |-> d]
    ELSE [ok |-> TRUE,
          db |-> [d EXCEPT !.config_history = @ \cup {HistoryRow(entry)}]]

\* ConfigManager::delete_history
delete_history(d, namespace_id, id) ==
    [d EXCEPT !.config_history =
        {r \in @ : ~(r.namespace_id = namespace_id /\ r.id = id)}]

\* ConfigManager::insert_config: [ok, db]; the cache is left alone
insert_config(d, entry) ==
    IF ConfigKeyConflict(d.config, entry)
    THEN [ok |-> FALSE, db |-> d]
    ELSE append_history([d EXCEPT !.config = @ \cup {entry}], entry)

\* the UPDATE statement of ConfigManager::update_config
UpdateConfigRows(rows, entry) ==
    {IF r.id_ = entry.id_
     THEN [r EXCEPT !.content = entry.content,
                    !.description = entry.description,
                    !.update_time = entry.update_time,
                    !.format = entry.format,
                    !.md5 = entry.md5]
     ELSE r : r \in rows}

\* ConfigManager::update_config: [ok, db]; ok tells whether the cache entry
\* is removed and the change is notified
update_config(d, entry) ==
    append_history([d EXCEPT !.config = UpdateConfigRows(@, entry)], entry)

\* ConfigManager::delete_config
delete_config(d, namespace_id, id) ==
    delete_history(
        [d EXCEPT !.config = {r \in @ : ~(r.namespace_id = namespace_id /\ r.id = id)}],
        namespace_id, id)

(***************************************************************************)
(* SQL statements of the namespace store and of the service table          *)
(***************************************************************************)
\* NamespaceManager::upsert_namespace
upsert_namespace(d, namespace) ==
    IF \E r \in d.namespace : r.id = namespace.id
    THEN [d EXCEPT !.namespace =
            {IF r.id = namespace.id
             THEN [r EXCEPT !.name = namespace.name,
                            !.description = namespace.description,
                            !.update_time = namespace.update_time]
             ELSE r : r \in @}]
    ELSE [d EXCEPT !.namespace = @ \cup {namespace}]

\* NamespaceManager::delete_namespace
delete_namespace(d, id) ==
    [d EXCEPT !.config = {r \in @ : r.namespace_id # id},
              !.namespace = {r \in @ : r.id # id}]

\* DiscoveryManager::upsert_service at local time t
upsert_service(d, namespace_id, service_id, meta, t) ==
    IF \E r \in d.service : r.namespace_id = namespace_id /\ r.service_id = service_id
    THEN [d EXCEPT !.service =
            {IF r.namespace_id = namespace_id /\ r.service_id = service_id
             THEN [r EXCEPT !.meta = meta, !.update_time = t]
             ELSE r : r \in @}]
    ELSE [d EXCEPT !.service = @ \cup
            {[namespace_id |-> namespace_id, service_id |-> service_id,
              meta |-> meta, create_time |-> t, update_time |-> t]}]

\* the durable part of DiscoveryManager::register_service
register_service(d, service, t) ==
    upsert_service(d, service.namespace_id, service.service_id, service.meta, t)

\* the durable part of DiscoveryManager::deregister_service
deregister_service(d, namespace_id, service_id) ==
    [d EXCEPT !.service =
        {r \in @ : ~(r.namespace_id = namespace_id /\ r.service_id = service_id)}]

(***************************************************************************)
(* EventHandler::handle_raft_request on the tables d at local time t:      *)
(* [ok, db]; an error of the handler is logged and dropped                 *)
(***************************************************************************)
handle_raft_request(d, req, t) ==
    CASE req.cmd = "SetConfig" -> insert_config(d, req.entry)
      [] req.cmd = "UpdateConfig" -> update_config(d, req.entry)
      [] req.cmd = "DeleteConfig" ->
            [ok |-> TRUE, db |-> delete_config(d, req.namespace_id, req.id)]
      [] req.cmd = "UpsertNamespace" ->
            [ok |-> TRUE, db |-> upsert_namespace(d, req.namespace)]
      [] req.cmd = "DeleteNamespace" ->
            [ok |-> TRUE, db |-> delete_namespace(d, req.id)]
      [] req.cmd = "RegisterService" ->
            [ok |-> TRUE, db |-> register_service(d, req.service, t)]
      [] req.cmd = "DeregisterService" ->
            [ok |-> TRUE, db |-> deregister_service(d, req.namespace_id, req.service_id)]
      [] OTHER -> [ok |-> TRUE, db |-> d]

\* the config_cache after the handler: update_config removes the entry
\* after a successful append_history
CacheAfterHandler(cache, req, ok) ==
    IF req.cmd = "UpdateConfig" /\ ok /\ enable_cache_config
    THEN [k \in DOMAIN cache \ {<<req.entry.namespace_id, req.entry.id>>} |-> cache[k]]
    ELSE cache

\* the match of StateMachineStore::apply_entry on the KV map
ApplyKv(data, req) ==
    CASE req.cmd = "Set" ->
            [k \in DOMAIN data \cup {req.key} |->
                IF k = req.key THEN req.value ELSE data[k]]
      [] req.cmd = "Delete" -> [k \in DOMAIN data \ {req.key} |-> data[k]]
      [] OTHER -> data

\* does apply_entry send the command to the event bus
SendsEvent(req) == req.cmd \in EventCommands \cup DiscoveryCommands

(***************************************************************************)
(* The state of the Raft model while it is not running                     *)
(***************************************************************************)
IdleClient == [pc |-> "idle"]
NoReplay == [pass |-> 0]

RaftIdle ==
    /\ log = <<>>
    /\ sm = [n \in Nodes |-> DefaultStateMachine]
    /\ snapshot = [n \in Nodes |-> None]
    /\ bus = [n \in Nodes |-> <<>>]
    /\ handling = [n \in Nodes |-> {}]
    /\ db = [n \in Nodes |-> EmptyDb]
    /\ config_cache = [n \in Nodes |-> <<>>]
    /\ enable_cache_config = FALSE
    /\ next_id = [n \in Nodes |-> 1]
    /\ client = IdleClient
    /\ clock = 0
    /\ membership = {}
    /\ replay = NoReplay

\* no namespace or config request has run
NoNsResp == [op |-> "none"]

GateIdle ==
    /\ ns_cache = <<>>
    /\ ns_resp = NoNsResp

\* no /config/watch request was made and no event was sent
IdleWatcher == [pc |-> "idle"]

WatchIdle ==
    /\ wclock = 0
    /\ watcher = IdleWatcher
    /\ published = <<>>

\* no config client runs
ClientIdle ==
    /\ srv = <<>>
    /\ view = <<>>
    /\ comp = [alive |-> FALSE, slept |-> 0]
    /\ stale_age = 0
    /\ changes = 0

\* no /write request was posted
IdleWrite == [pc |-> "idle"]

FwdIdle == fwd = IdleWrite

\* a sled Db in which the trees logs and meta are empty
EmptySled == [logs |-> <<>>, meta |-> <<>>]

\* no call of the log store has run
NoStoreResp == [op |-> "none"]

StoreIdle ==
    /\ tree = EmptySled
    /\ disk = EmptySled
    /\ acked = [logs |-> {}, vote |-> <<>>, last_purged_log_id |-> <<>>]
    /\ store_resp = NoStoreResp

\* a sled Db in which the tree sm_meta holds no snapshot
EmptySmMeta == [snapshot |-> <<>>]

\* no snapshot is built or installed
IdleTasks == [build |-> [pc |-> "idle"], install |-> [pc |-> "idle"]]

\* no read and no get_current_snapshot has run
NoSnapResp == [op |-> "none"]

SnapIdle ==
    /\ heap = <<>>
    /\ sms = [state_machine |-> 0, snapshot_idx |-> 0, app |-> 0]
    /\ sm_db = [tree |-> EmptySmMeta, disk |-> EmptySmMeta]
    /\ snap_task = IdleTasks
    /\ snap_hist = [written |-> <<>>, done_pos |-> 0]
    /\ snap_resp = NoSnapResp

\* the watch task waits in its long poll, no change is reported
WatchPolling == [pc |-> "poll", pending |-> <<>>, changed |-> <<>>, new_configs |-> <<>>]

\* the client fields outside the watch-reload model
ReloadIdle ==
    /\ wtask = WatchPolling
    /\ notified = <<>>

\* the heartbeat task has not started
BeatIdle == hb = [pc |-> "off", next |-> 0, reregistered |-> FALSE, first_after |-> FALSE]

\* no client is configured
AddrIdle == net = [server_addr |-> [kind |-> "Unset"]]

\* no documents are at hand
YamlIdle == yaml = [pc |-> "none"]

\* no namespace manager is in use
NsRaceIdle == nsrace = [pc |-> "none"]
\* no local cache is in use
LocalCacheIdle == lcache = [pc |-> "none"]
\* no discovery manager is in use
DiscMapIdle == dmgr = [pc |-> "none"]
\* no write is on its way
HopIdle == hop = [pc |-> "none"]
\* no user has logged in
TokenIdle == tok = [pc |-> "none"]
\* the components outside the earlier models are not in use
TailIdle == NsRaceIdle /\ LocalCacheIdle /\ DiscMapIdle /\ HopIdle /\ TokenIdle

LateIdle == SnapIdle /\ ReloadIdle /\ BeatIdle /\ AddrIdle /\ YamlIdle /\ TailIdle

\* the earlier models are not in use
PriorIdle ==
    /\ services = <<>>
    /\ now = 0
    /\ resp = NoneResp
    /\ RaftIdle
    /\ GateIdle
    /\ WatchIdle
    /\ ClientIdle
    /\ FwdIdle
    /\ StoreIdle
    /\ SnapIdle
    /\ ReloadIdle
    /\ BeatIdle
    /\ AddrIdle
    /\ YamlIdle

RestIdle == GateIdle /\ WatchIdle /\ ClientIdle /\ FwdIdle /\ StoreIdle /\ LateIdle

(***************************************************************************)
(* SpecRaft: the admin client of the leader                                *)
(***************************************************************************)
\* the value ConfigManager::get_config returns on node n
get_config(n, namespace_id, id) ==
    IF enable_cache_config /\ <<namespace_id, id>> \in DOMAIN config_cache[n]
    THEN config_cache[n][<<namespace_id, id>>]
    ELSE SelectConfig(db[n], namespace_id, id)

\* the config_cache of node n after ConfigManager::get_config
CacheAfterGet(n, namespace_id, id) ==
    IF enable_cache_config
    THEN [k \in DOMAIN config_cache[n] \cup {<<namespace_id, id>>} |->
            IF k = <<namespace_id, id>>
            THEN get_config(n, namespace_id, id)
            ELSE config_cache[n][k]]
    ELSE config_cache[n]

\* the entry of the None arm of upsert_config_and_sync
NewEntry(namespace_id, id, content) ==
    [id_ |-> next_id[Leader],
     namespace_id |-> namespace_id,
     id |-> id,
     content |-> content,
     create_time |-> clock,
     update_time |-> clock,
     description |-> "",
     format |-> "yaml",
     md5 |-> gen_md5(content)]

\* the entry of the Some(old) arm of upsert_config_and_sync
UpdatedEntry(old, namespace_id, id, content) ==
    [id_ |-> old.id_,
     namespace_id |-> namespace_id,
     id |-> id,
     content |-> content,
     create_time |-> old.create_time,
     update_time |-> clock,
     description |-> "",
     format |-> "yaml",
     md5 |-> gen_md5(content)]

\* the number of entries the log may hold
LogBound == IF Cardinality(membership) > 1 THEN MaxClusterLog ELSE MaxLog

\* is this request the same upsert as the one that just returned success
RepeatsLastUpsert(namespace_id, id, content) ==
    /\ client.pc = "returned"
    /\ client.op = "upsert"
    /\ client.result = "Ok"
    /\ client.key = <<namespace_id, id>>
    /\ client.content = content

\* ConfigManager::upsert_config_and_sync up to the call of client_write
ClientUpsert(namespace_id, id, content) ==
    LET old == get_config(Leader, namespace_id, id)
        request == [op |-> "upsert", key |-> <<namespace_id, id>>,
                    content |-> content,
                    repeat |-> RepeatsLastUpsert(namespace_id, id, content)]
    IN  /\ client.pc \in {"idle", "returned"}
        /\ config_cache' = [config_cache EXCEPT ![Leader] =
                                CacheAfterGet(Leader, namespace_id, id)]
        /\ IF old # None /\ old.md5 = gen_md5(content)
           THEN \* config content not change
                /\ client' = [pc |-> "returned", result |-> "Ok", index |-> 0,
                              submitted |-> FALSE] @@ request
                /\ UNCHANGED <<log, next_id>>
           ELSE /\ Len(log) < LogBound
                /\ IF old = None
                   THEN /\ log' = Append(log, [cmd |-> "SetConfig",
                                    entry |-> NewEntry(namespace_id, id, content)])
                        /\ next_id' = [next_id EXCEPT ![Leader] = @ + 1]
                   ELSE /\ log' = Append(log, [cmd |-> "UpdateConfig",
                                    entry |-> UpdatedEntry(old, namespace_id, id, content)])
                        /\ UNCHANGED next_id
                /\ client' = [pc |-> "writing", result |-> "", index |-> Len(log) + 1,
                              submitted |-> TRUE] @@ request
        /\ UNCHANGED <<sm, snapshot, bus, handling, db, enable_cache_config,
                       clock, membership, replay, discVars, restVars>>

\* ConfigManager::delete_config_and_sync up to the call of client_write
ClientDelete(namespace_id, id) ==
    /\ client.pc \in {"idle", "returned"}
    /\ Len(log) < LogBound
    /\ log' = Append(log, [cmd |-> "DeleteConfig", namespace_id |-> namespace_id,
                           id |-> id])
    /\ client' = [pc |-> "writing", result |-> "", index |-> Len(log) + 1,
                  submitted |-> TRUE, op |-> "delete", key |-> <<namespace_id, id>>,
                  content |-> "", repeat |-> FALSE]
    /\ UNCHANGED <<sm, snapshot, bus, handling, db, config_cache,
                   enable_cache_config, next_id, clock, membership, replay, discVars, restVars>>

\* raft.client_write returns once the leader has applied the entry
ClientWriteReturns ==
    /\ client.pc = "writing"
    /\ sm[Leader].last_applied_log >= client.index
    /\ client' = [client EXCEPT !.pc = "returned", !.result = "Ok"]
    /\ UNCHANGED <<log, sm, snapshot, bus, handling, db, config_cache,
                   enable_cache_config, next_id, clock, membership, replay, discVars, restVars>>

(***************************************************************************)
(* SpecRaft: apply, the event handler, snapshots and restarts              *)
(***************************************************************************)
\* StateMachineStore::apply_entry of the next committed entry on node n
Apply(n) ==
    LET index == sm[n].last_applied_log + 1
        req == log[index]
    IN  /\ index <= Len(log)
        /\ sm' = [sm EXCEPT ![n] = [last_applied_log |-> index,
                                    data |-> ApplyKv(sm[n].data, req)]]
        /\ bus' = [bus EXCEPT ![n] =
                      IF SendsEvent(req)
                      THEN Append(@, [index |-> index, req |-> req])
                      ELSE @]
        /\ UNCHANGED <<log, snapshot, handling, db, config_cache,
                       enable_cache_config, next_id, client, clock, membership, replay, discVars, restVars>>

\* a handle_events that spawns process_event without awaiting it
HandlerCanRecvSpawned(n) == n \in Nodes
\* handle_events awaits process_event before it receives the next event
HandlerCanRecv(n) == handling[n] = {}

\* EventHandler::handle_events: receiver.recv() hands over the oldest event
HandlerRecv(n) ==
    /\ bus[n] # <<>>
    /\ HandlerCanRecv(n)
    /\ handling' = [handling EXCEPT ![n] = @ \cup {Head(bus[n])}]
    /\ bus' = [bus EXCEPT ![n] = Tail(@)]
    /\ UNCHANGED <<log, sm, snapshot, db, config_cache, enable_cache_config,
                   next_id, client, clock, membership, replay, discVars, restVars>>

\* a process_event that hands the error of the handler back to the state
\* machine, which takes the entry as not applied
HandlerFinishReturnsError(n) ==
    \E e \in handling[n] :
        LET r == handle_raft_request(db[n], e.req, clock)
        IN  /\ db' = [db EXCEPT ![n] = r.db]
            /\ config_cache' = [config_cache EXCEPT ![n] =
                                    CacheAfterHandler(@, e.req, r.ok)]
            /\ handling' = [handling EXCEPT ![n] = @ \ {e}]
            /\ sm' = IF r.ok THEN sm
                     ELSE [sm EXCEPT ![n].last_applied_log = e.index - 1]
            /\ UNCHANGED <<log, snapshot, bus, enable_cache_config,
                           next_id, client, clock, membership, replay, discVars, restVars>>

\* EventHandler::process_event runs the handler of the event to its end
HandlerFinish(n) ==
    \E e \in handling[n] :
        LET r == handle_raft_request(db[n], e.req, clock)
        IN  /\ db' = [db EXCEPT ![n] = r.db]
            /\ config_cache' = [config_cache EXCEPT ![n] =
                                    CacheAfterHandler(@, e.req, r.ok)]
            /\ handling' = [handling EXCEPT ![n] = @ \ {e}]
            /\ UNCHANGED <<log, sm, snapshot, bus, enable_cache_config,
                           next_id, client, clock, membership, replay, discVars, restVars>>

\* StateMachineStore::build_snapshot
BuildSnapshot(n) ==
    /\ snapshot[n] # sm[n]
    /\ snapshot' = [snapshot EXCEPT ![n] = sm[n]]
    /\ UNCHANGED <<log, sm, bus, handling, db, config_cache, enable_cache_config,
                   next_id, client, clock, membership, replay, discVars, restVars>>

\* the process of node n stops and starts again: StateMachineStore::new
\* loads the stored snapshot; the channel, the handler and the cache are gone
CrashRestart(n) ==
    /\ sm' = [sm EXCEPT ![n] =
                 IF snapshot[n] = None THEN DefaultStateMachine ELSE snapshot[n]]
    /\ bus' = [bus EXCEPT ![n] = <<>>]
    /\ handling' = [handling EXCEPT ![n] = {}]
    /\ config_cache' = [config_cache EXCEPT ![n] = <<>>]
    /\ client' = IF n = Leader /\ client.pc = "writing"
                 THEN [client EXCEPT !.pc = "returned", !.result = "Err"]
                 ELSE client
    /\ UNCHANGED <<log, snapshot, db, enable_cache_config, next_id, clock,
                   membership, replay, discVars, restVars>>

\* the clock of the Raft nodes moves on
ClockTick ==
    /\ clock < MaxClock
    /\ clock' = clock + 1
    /\ UNCHANGED <<log, sm, snapshot, bus, handling, db, config_cache,
                   enable_cache_config, next_id, client, membership, replay, discVars, restVars>>

\* the state in which the nodes of the cluster start
RaftStart(nodes, cache_modes) ==
    /\ services = <<>>
    /\ now = 0
    /\ resp = NoneResp
    /\ log = <<>>
    /\ sm = [n \in Nodes |-> DefaultStateMachine]
    /\ snapshot = [n \in Nodes |-> None]
    /\ bus = [n \in Nodes |-> <<>>]
    /\ handling = [n \in Nodes |-> {}]
    /\ db = [n \in Nodes |-> EmptyDb]
    /\ config_cache = [n \in Nodes |-> <<>>]
    /\ enable_cache_config \in cache_modes
    /\ next_id = [n \in Nodes |-> 1]
    /\ client = IdleClient
    /\ clock = 0
    /\ membership = nodes
    /\ replay = NoReplay
    /\ RestIdle

\* Mode::Standalone: raft.initialize(BTreeSet::from([args.node_id]))
InitRaft == RaftStart({Leader}, BOOLEAN)

\* Mode::Cluster: POST /init with both nodes, the config cache disabled
InitCluster == RaftStart(Nodes, {FALSE})

NextRaft ==
    \/ \E k \in ReqConfigKeys, c \in ReqContents : ClientUpsert(k[1], k[2], c)
    \/ \E k \in ReqConfigKeys : ClientDelete(k[1], k[2])
    \/ ClientWriteReturns
    \/ \E n \in membership : Apply(n)
    \/ \E n \in membership : HandlerRecv(n)
    \/ \E n \in membership : HandlerFinish(n)
    \/ \E n \in membership : BuildSnapshot(n)
    \/ \E n \in membership : CrashRestart(n)
    \/ ClockTick

SpecRaft == InitRaft /\ [][NextRaft]_vars

SpecCluster == InitCluster /\ [][NextRaft]_vars

(***************************************************************************)
(* SpecRecovery: ConfigManager::recovery next to the upserts, on a node    *)
(* that does not restart                                                   *)
(***************************************************************************)
\* the history ids that recovery is called with: id_ + update_time of the
\* entries of the model, and ids of no row
RecoveryIds == 1..(MaxLog + MaxClock + 1)

\* SELECT * FROM config_history WHERE id_ = ? (fetch_optional)
SelectHistory(d, id_) ==
    LET hit == {r \in d.config_history : r.id_ = id_}
    IN  IF hit = {} THEN None ELSE CHOOSE r \in hit : TRUE

\* the history rows of a config
HistoryOf(d, namespace_id, id) ==
    {r \in d.config_history : r.namespace_id = namespace_id /\ r.id = id}

\* ConfigManager::recovery up to the call of client_write: the history row
\* is read and its content goes through upsert_config_and_sync
ClientRecovery(id_) ==
    LET history == SelectHistory(db[Leader], id_)
        old == get_config(Leader, history.namespace_id, history.id)
        request == [op |-> "recovery",
                    key |-> <<history.namespace_id, history.id>>,
                    content |-> history.content, repeat |-> FALSE,
                    rows_before |-> Cardinality(HistoryOf(db[Leader],
                                        history.namespace_id, history.id))]
    IN  /\ client.pc \in {"idle", "returned"}
        /\ IF history = None
           THEN \* No history config found
                /\ client' = [pc |-> "returned", result |-> "Err", index |-> 0,
                              submitted |-> FALSE, op |-> "recovery",
                              key |-> <<>>, content |-> "", repeat |-> FALSE,
                              rows_before |-> 0]
                /\ UNCHANGED <<log, next_id, config_cache>>
           ELSE /\ config_cache' = [config_cache EXCEPT ![Leader] =
                        CacheAfterGet(Leader, history.namespace_id, history.id)]
                /\ IF old # None /\ old.md5 = gen_md5(history.content)
                   THEN \* config content not change
                        /\ client' = [pc |-> "returned", result |-> "Ok",
                                      index |-> 0, submitted |-> FALSE] @@ request
                        /\ UNCHANGED <<log, next_id>>
                   ELSE /\ Len(log) < LogBound
                        /\ IF old = None
                           THEN /\ log' = Append(log, [cmd |-> "SetConfig",
                                    entry |-> NewEntry(history.namespace_id,
                                                 history.id, history.content)])
                                /\ next_id' = [next_id EXCEPT ![Leader] = @ + 1]
                           ELSE /\ log' = Append(log, [cmd |-> "UpdateConfig",
                                    entry |-> UpdatedEntry(old, history.namespace_id,
                                                 history.id, history.content)])
                                /\ UNCHANGED next_id
                        /\ client' = [pc |-> "writing", result |-> "",
                                      index |-> Len(log) + 1,
                                      submitted |-> TRUE] @@ request
        /\ UNCHANGED <<sm, snapshot, bus, handling, db, enable_cache_config,
                       clock, membership, replay, discVars, restVars>>

NextRecovery ==
    \/ \E k \in ReqConfigKeys, c \in ReqContents : ClientUpsert(k[1], k[2], c)
    \/ \E k \in ReqConfigKeys : ClientDelete(k[1], k[2])
    \/ \E id_ \in RecoveryIds : ClientRecovery(id_)
    \/ ClientWriteReturns
    \/ Apply(Leader)
    \/ HandlerRecv(Leader)
    \/ HandlerFinish(Leader)
    \/ ClockTick

SpecRecovery == InitRaft /\ [][NextRecovery]_vars

(***************************************************************************)
(* SpecReplay: a log prefix is applied from the start, the process         *)
(* restarts before any snapshot was built, and the prefix is applied again *)
(***************************************************************************)
\* ConfigEntry values of the commands of a prefix
ReplayEntries ==
    {[id_ |-> 1, namespace_id |-> "public", id |-> "test.yaml", content |-> "age: 3",
      create_time |-> 0, update_time |-> 0, description |-> "", format |-> "yaml",
      md5 |-> gen_md5("age: 3")],
     [id_ |-> 2, namespace_id |-> "public", id |-> "test.yaml", content |-> "age: 4",
      create_time |-> 1, update_time |-> 1, description |-> "", format |-> "yaml",
      md5 |-> gen_md5("age: 4")]}

\* the UpdateConfig commands upsert_config_and_sync builds for an entry
ReplayUpdates ==
    {[e EXCEPT !.content = "age: 4", !.md5 = gen_md5("age: 4"), !.update_time = 1] :
        e \in {r \in ReplayEntries : r.id_ = 1}}

\* Namespace values of the commands of a prefix
ReplayNamespaces ==
    {[id |-> "public", name |-> nm, description |-> "", create_time |-> 0,
      update_time |-> 0] : nm \in {"public", "default"}}

\* the RaftRequest values of a prefix
ReplayCommands ==
    {[cmd |-> "Set", key |-> "k", value |-> v] : v \in {"a", "b"}}
    \cup {[cmd |-> "Delete", key |-> "k"]}
    \cup {[cmd |-> "SetConfig", entry |-> e] : e \in ReplayEntries}
    \cup {[cmd |-> "UpdateConfig", entry |-> e] : e \in ReplayUpdates}
    \cup {[cmd |-> "DeleteConfig", namespace_id |-> "public", id |-> "test.yaml"]}
    \cup {[cmd |-> "UpsertNamespace", namespace |-> ns] : ns \in ReplayNamespaces}
    \cup {[cmd |-> "DeleteNamespace", id |-> "public"]}
    \cup {[cmd |-> "RegisterService",
           service |-> [namespace_id |-> "public", service_id |-> "svc1",
                        meta |-> "{}"]]}
    \cup {[cmd |-> "DeregisterService", namespace_id |-> "public",
           service_id |-> "svc1"]}

\* the sequences over set of a length up to n
RECURSIVE SeqsUpTo(_, _)
SeqsUpTo(set, n) ==
    IF n = 0 THEN {<<>>}
    ELSE LET shorter == SeqsUpTo(set, n - 1)
         IN  shorter \cup {Append(p, c) : p \in shorter, c \in set}

\* the logs the admin API of the leader writes: id::next gives every
\* SetConfig its own id_, and an UpdateConfig keeps the id_ of the config
\* that get_config found
ProducibleLog(p) ==
    \A i \in 1..Len(p) :
        /\ p[i].cmd = "SetConfig" =>
              \A j \in 1..(i - 1) :
                  p[j].cmd = "SetConfig" => p[j].entry.id_ # p[i].entry.id_
        /\ p[i].cmd = "UpdateConfig" =>
              \E j \in 1..(i - 1) :
                  p[j].cmd = "SetConfig" /\ p[j].entry.id_ = p[i].entry.id_

\* the KV map and the tables of node n
StoredState(n) == [data |-> sm[n].data, db |-> db[n]]

\* apply_entry of the next entry of the prefix, and the handler of its
\* event run to its end by the single consumer of the event bus
ReplayEntry ==
    LET index == replay.pos + 1
        req == log[index]
        r == IF SendsEvent(req)
             THEN handle_raft_request(db[Leader], req, clock)
             ELSE [ok |-> TRUE, db |-> db[Leader]]
    IN  /\ replay.pass \in {1, 2}
        /\ index <= Len(log)
        /\ sm' = [sm EXCEPT ![Leader] = [last_applied_log |-> index,
                                         data |-> ApplyKv(sm[Leader].data, req)]]
        /\ db' = [db EXCEPT ![Leader] = r.db]
        /\ config_cache' = [config_cache EXCEPT ![Leader] =
                                CacheAfterHandler(@, req, r.ok)]
        /\ replay' = [replay EXCEPT !.pos = index]
        /\ UNCHANGED <<log, snapshot, bus, handling, enable_cache_config, next_id,
                       client, clock, membership, discVars, restVars>>

\* the process restarts after the prefix was applied once: no snapshot is
\* stored, StateMachineStore::new starts from the default state machine and
\* the log is applied again from its start; the tables are on disk
ReplayRestart ==
    /\ replay.pass = 1
    /\ replay.pos = Len(log)
    /\ replay' = [pass |-> 2, pos |-> 0, once |-> StoredState(Leader)]
    /\ sm' = [sm EXCEPT ![Leader] = DefaultStateMachine]
    /\ config_cache' = [config_cache EXCEPT ![Leader] = <<>>]
    /\ UNCHANGED <<log, snapshot, bus, handling, db, enable_cache_config, next_id,
                   client, clock, membership, discVars, restVars>>

InitReplay ==
    /\ services = <<>>
    /\ now = 0
    /\ resp = NoneResp
    /\ log \in {p \in SeqsUpTo(ReplayCommands, MaxPrefix) : p # <<>> /\ ProducibleLog(p)}
    /\ sm = [n \in Nodes |-> DefaultStateMachine]
    /\ snapshot = [n \in Nodes |-> None]
    /\ bus = [n \in Nodes |-> <<>>]
    /\ handling = [n \in Nodes |-> {}]
    /\ db = [n \in Nodes |-> EmptyDb]
    /\ config_cache = [n \in Nodes |-> <<>>]
    /\ enable_cache_config = FALSE
    /\ next_id = [n \in Nodes |-> 1]
    /\ client = IdleClient
    /\ clock = 0
    /\ membership = {Leader}
    /\ replay = [pass |-> 1, pos |-> 0, once |-> None]
    /\ RestIdle

NextReplay ==
    \/ ReplayEntry
    \/ ReplayRestart
    \/ ClockTick

SpecReplay == InitReplay /\ [][NextReplay]_vars

(***************************************************************************)
(* SpecHandlerErrors: two replicas apply a committed log whose commands    *)
(* make the handlers fail                                                  *)
(***************************************************************************)
\* the longest committed log of the model
MaxErrLog == 3

\* the commands of the committed log: a second SetConfig of a key and an
\* UpdateConfig that follows a DeleteConfig fail in the handler
ErrCommands ==
    {[cmd |-> "Set", key |-> "k", value |-> "a"]}
    \cup {[cmd |-> "SetConfig", entry |-> e] : e \in ReplayEntries}
    \cup {[cmd |-> "UpdateConfig", entry |-> e] : e \in ReplayUpdates}
    \cup {[cmd |-> "DeleteConfig", namespace_id |-> "public", id |-> "test.yaml"]}

\* both replicas start with nothing applied of a log that is committed
InitHandlerErrors ==
    /\ services = <<>>
    /\ now = 0
    /\ resp = NoneResp
    /\ log \in {p \in SeqsUpTo(ErrCommands, MaxErrLog) : p # <<>> /\ ProducibleLog(p)}
    /\ sm = [n \in Nodes |-> DefaultStateMachine]
    /\ snapshot = [n \in Nodes |-> None]
    /\ bus = [n \in Nodes |-> <<>>]
    /\ handling = [n \in Nodes |-> {}]
    /\ db = [n \in Nodes |-> EmptyDb]
    /\ config_cache = [n \in Nodes |-> <<>>]
    /\ enable_cache_config = FALSE
    /\ next_id = [n \in Nodes |-> 1]
    /\ client = IdleClient
    /\ clock = 0
    /\ membership = Nodes
    /\ replay = NoReplay
    /\ RestIdle

NextHandlerErrors ==
    \/ \E n \in Nodes : Apply(n)
    \/ \E n \in Nodes : HandlerRecv(n)
    \/ \E n \in Nodes : HandlerFinish(n)

SpecHandlerErrors == InitHandlerErrors /\ [][NextHandlerErrors]_vars

(***************************************************************************)
(* SpecGate: the namespace manager of the leader, its token check and the  *)
(* requests that name a namespace                                          *)
(***************************************************************************)
\* the namespace ids that requests name
ReqNamespaces == {"public", "dev"}
\* Option<&str>: the value of the X-NS-Token header, or of auth_token
NoToken == <<>>
ReqTokens == {NoToken, <<"T1">>, <<"T2">>}
\* the (is_auth, auth_token) pairs of the upsert requests
ReqAuthSettings == {<<FALSE, NoToken>>, <<TRUE, <<"T1">>>>, <<TRUE, <<"T2">>>>}

\* the row of the reserved namespace that the schema creates
PublicNamespace ==
    [id |-> "public", name |-> "public", description |-> "", is_auth |-> FALSE,
     auth_token |-> NoToken, create_time |-> 0, update_time |-> 0]

\* select * from namespace where id = ? (fetch_optional)
SelectNamespace(d, id) ==
    LET hit == {r \in d.namespace : r.id = id}
    IN  IF hit = {} THEN None ELSE CHOOSE r \in hit : TRUE

\* NamespaceManager::get_namespace: the cached value, else the stored row
get_namespace(d, cache, id) ==
    IF id \in DOMAIN cache THEN cache[id] ELSE SelectNamespace(d, id)

\* the cache after NamespaceManager::get_namespace
CacheAfterGetNamespace(d, cache, id) ==
    IF id \notin DOMAIN cache /\ SelectNamespace(d, id) # None
    THEN [k \in DOMAIN cache \cup {id} |->
            IF k = id THEN SelectNamespace(d, id) ELSE cache[k]]
    ELSE cache

\* self.cache.remove(id)
CacheRemove(cache, id) == [k \in DOMAIN cache \ {id} |-> cache[k]]

\* an auth that ignores the is_auth flag of the namespace
auth_ignores_flag(d, cache, namespace_id, auth_token) ==
    LET namespace == get_namespace(d, cache, namespace_id)
    IN  ~(namespace # None /\ namespace.auth_token # auth_token)
\* NamespaceManager::auth
auth(d, cache, namespace_id, auth_token) ==
    LET namespace == get_namespace(d, cache, namespace_id)
    IN  ~(namespace # None /\ namespace.is_auth /\ namespace.auth_token # auth_token)

\* NamespaceAuth::from_request of a request without the X-Console header;
\* no route of config/server/api.rs names this guard
NamespaceAuth(d, cache, namespace_id, token) ==
    IF auth(d, cache, namespace_id, token) THEN "Success" ELSE "Unauthorized"

\* NamespaceManager::insert_namespace: [db, cache]
insert_namespace(d, cache, namespace) ==
    IF \E r \in d.namespace : r.id = namespace.id
    THEN [db |-> d, cache |-> cache]
    ELSE [db |-> [d EXCEPT !.namespace = @ \cup {namespace}],
          cache |-> CacheRemove(cache, namespace.id)]

\* NamespaceManager::update_namespace: [db, cache]
update_namespace(d, cache, namespace) ==
    [db |-> [d EXCEPT !.namespace =
                {IF r.id = namespace.id
                 THEN [r EXCEPT !.name = namespace.name,
                                !.description = namespace.description,
                                !.is_auth = namespace.is_auth,
                                !.auth_token = namespace.auth_token,
                                !.update_time = namespace.update_time]
                 ELSE r : r \in @}],
     cache |-> CacheRemove(cache, namespace.id)]

\* NamespaceManager::upsert_namespace with the cache: [db, cache]
manager_upsert_namespace(d, cache, namespace) ==
    LET old == get_namespace(d, cache, namespace.id)
        cached == CacheAfterGetNamespace(d, cache, namespace.id)
    IN  IF old = None
        THEN insert_namespace(d, cached, namespace)
        ELSE update_namespace(d, cached, namespace)

\* NamespaceManager::delete_namespace with the cache: [db, cache]
manager_delete_namespace(d, cache, id) ==
    [db |-> [d EXCEPT !.config = {r \in @ : r.namespace_id # id},
                      !.namespace = {r \in @ : r.id # id}],
     cache |-> CacheRemove(cache, id)]

\* EventHandler::handle_raft_request with this namespace manager: [db, cache]
GateHandle(d, cache, req) ==
    CASE req.cmd = "UpsertNamespace" -> manager_upsert_namespace(d, cache, req.namespace)
      [] req.cmd = "DeleteNamespace" -> manager_delete_namespace(d, cache, req.id)
      [] OTHER -> [db |-> handle_raft_request(d, req, clock).db, cache |-> cache]

\* a delete_namespace_and_sync that accepts every id
IsReservedNever(id) == id # id
\* id == "public" of delete_namespace_and_sync
IsReserved(id) == id = "public"

\* NamespaceManager::upsert_namespace_and_sync
GateUpsertNamespace(id, is_auth, auth_token) ==
    /\ client.pc \in {"idle", "returned"}
    /\ Len(log) < MaxGateLog
    /\ log' = Append(log, [cmd |-> "UpsertNamespace",
                           namespace |-> [id |-> id, name |-> id, description |-> "",
                                          is_auth |-> is_auth, auth_token |-> auth_token,
                                          create_time |-> clock, update_time |-> clock]])
    /\ ns_resp' = [op |-> "upsert_namespace", id |-> id, result |-> "Ok"]
    /\ UNCHANGED <<sm, snapshot, bus, handling, db, config_cache, enable_cache_config,
                   next_id, client, clock, membership, replay, ns_cache, discVars, gateRest>>

\* NamespaceManager::delete_namespace_and_sync
GateDeleteNamespace(id) ==
    /\ client.pc \in {"idle", "returned"}
    /\ IF IsReserved(id)
       THEN /\ ns_resp' = [op |-> "delete_namespace", id |-> id, result |-> "Err"]
            /\ UNCHANGED log
       ELSE /\ Len(log) < MaxGateLog
            /\ log' = Append(log, [cmd |-> "DeleteNamespace", id |-> id])
            /\ ns_resp' = [op |-> "delete_namespace", id |-> id, result |-> "Ok"]
    /\ UNCHANGED <<sm, snapshot, bus, handling, db, config_cache, enable_cache_config,
                   next_id, client, clock, membership, replay, ns_cache, discVars, gateRest>>

\* POST /write of the Raft API with a DeleteNamespace command in its body
GateRawWrite(id) ==
    /\ client.pc \in {"idle", "returned"}
    /\ Len(log) < MaxGateLog
    /\ log' = Append(log, [cmd |-> "DeleteNamespace", id |-> id])
    /\ ns_resp' = [op |-> "write", id |-> id, result |-> "Ok"]
    /\ UNCHANGED <<sm, snapshot, bus, handling, db, config_cache, enable_cache_config,
                   next_id, client, clock, membership, replay, ns_cache, discVars, gateRest>>

\* EventHandler::process_event with this namespace manager
GateHandlerFinish(n) ==
    \E e \in handling[n] :
        LET r == GateHandle(db[n], ns_cache, e.req)
        IN  /\ db' = [db EXCEPT ![n] = r.db]
            /\ ns_cache' = r.cache
            /\ handling' = [handling EXCEPT ![n] = @ \ {e}]
            /\ UNCHANGED <<log, sm, snapshot, bus, config_cache, enable_cache_config,
                           next_id, client, clock, membership, replay, ns_resp, discVars, gateRest>>

\* a request that runs NamespaceManager::auth
GateAuth(namespace_id, token) ==
    /\ ns_resp' = [op |-> "auth", namespace_id |-> namespace_id, token |-> token,
                   result |-> auth(db[Leader], ns_cache, namespace_id, token)]
    /\ ns_cache' = CacheAfterGetNamespace(db[Leader], ns_cache, namespace_id)
    /\ UNCHANGED <<raftVars, discVars, gateRest>>

\* GET /config/get?namespace_id&id with the header X-NS-Token: token
GateConfigGet(namespace_id, id, token) ==
    /\ ns_resp' = [op |-> "config_get", namespace_id |-> namespace_id, id |-> id,
                   token |-> token, status |-> "Ok",
                   data |-> get_config(Leader, namespace_id, id)]
    /\ config_cache' = [config_cache EXCEPT ![Leader] =
                            CacheAfterGet(Leader, namespace_id, id)]
    /\ UNCHANGED <<log, sm, snapshot, bus, handling, db, enable_cache_config,
                   next_id, client, clock, membership, replay, ns_cache, discVars, gateRest>>

InitGate ==
    /\ services = <<>>
    /\ now = 0
    /\ resp = NoneResp
    /\ log = <<>>
    /\ sm = [n \in Nodes |-> DefaultStateMachine]
    /\ snapshot = [n \in Nodes |-> None]
    /\ bus = [n \in Nodes |-> <<>>]
    /\ handling = [n \in Nodes |-> {}]
    /\ db = [n \in Nodes |-> [EmptyDb EXCEPT !.namespace = {PublicNamespace}]]
    /\ config_cache = [n \in Nodes |-> <<>>]
    /\ enable_cache_config = FALSE
    /\ next_id = [n \in Nodes |-> 1]
    /\ client = IdleClient
    /\ clock = 0
    /\ membership = {Leader}
    /\ replay = NoReplay
    /\ ns_cache = <<>>
    /\ ns_resp = NoNsResp
    /\ WatchIdle
    /\ ClientIdle
    /\ FwdIdle
    /\ StoreIdle
    /\ LateIdle

NextGate ==
    \/ \E id \in ReqNamespaces, a \in ReqAuthSettings : GateUpsertNamespace(id, a[1], a[2])
    \/ \E id \in ReqNamespaces : GateDeleteNamespace(id)
    \/ \E id \in ReqNamespaces : GateRawWrite(id)
    \/ \E k \in ReqConfigKeys, c \in ReqContents :
          Len(log) < MaxGateLog /\ ClientUpsert(k[1], k[2], c)
    \/ ClientWriteReturns
    \/ Apply(Leader)
    \/ HandlerRecv(Leader)
    \/ GateHandlerFinish(Leader)
    \/ \E id \in ReqNamespaces, t \in ReqTokens : GateAuth(id, t)
    \/ \E k \in ReqConfigKeys, t \in ReqTokens : GateConfigGet(k[1], k[2], t)

SpecGate == InitGate /\ [][NextGate]_vars

(***************************************************************************)
(* SpecWatch: GET /config/watch and the broadcast channel of               *)
(* ConfigManager                                                           *)
(***************************************************************************)
\* Duration::from_secs(29) of the timeout of watch
WATCH_TIMEOUT == 29

\* the ConfigChangeEvent values that notify_config_change sends
WatchEvents ==
    {[namespace_id |-> "public", config_id |-> "test.yaml"],
     [namespace_id |-> "public", config_id |-> "app.yaml"],
     [namespace_id |-> "dev", config_id |-> "test.yaml"]}

\* watch: sender.subscribe() and the start of the timeout
WatchSubscribe(namespace_id) ==
    /\ watcher.pc = "idle"
    /\ watcher' = [pc |-> "waiting", namespace_id |-> namespace_id, start |-> wclock,
                   receiver |-> <<>>, result |-> <<>>]
    /\ UNCHANGED <<wclock, published, watchRest>>

\* ConfigManager::notify_config_change: sender.send(event) hands the event
\* to every subscribed receiver
Publish(event) ==
    /\ Len(published) < MaxEvents
    /\ published' = Append(published,
                           [event |-> event,
                            in_time |-> watcher.pc # "idle"
                                        /\ wclock - watcher.start < WATCH_TIMEOUT])
    /\ watcher' = IF watcher.pc = "waiting"
                  THEN [watcher EXCEPT !.receiver = Append(@, event)]
                  ELSE watcher
    /\ UNCHANGED <<wclock, watchRest>>

\* the response of watch to the event that receiver.recv() returned
WatchResult(event, namespace_id) ==
    IF event.namespace_id = namespace_id THEN <<event.config_id>> ELSE <<>>

\* watch: receiver.recv() returns the oldest event and the request answers
WatchRecv ==
    /\ watcher.pc = "waiting"
    /\ watcher.receiver # <<>>
    /\ watcher' = [watcher EXCEPT
                      !.pc = "done",
                      !.result = WatchResult(Head(watcher.receiver), watcher.namespace_id),
                      !.receiver = <<>>]
    /\ UNCHANGED <<wclock, published, watchRest>>

\* watch: the timeout elapses and the request answers None
WatchTimeout ==
    /\ watcher.pc = "waiting"
    /\ watcher.receiver = <<>>
    /\ wclock - watcher.start >= WATCH_TIMEOUT
    /\ watcher' = [watcher EXCEPT !.pc = "done", !.result = <<>>]
    /\ UNCHANGED <<wclock, published, watchRest>>

\* a second passes; a response that is due is sent first
WatchTick ==
    /\ wclock < MaxWatchClock
    /\ ~(watcher.pc = "waiting"
         /\ (watcher.receiver # <<>> \/ wclock - watcher.start >= WATCH_TIMEOUT))
    /\ wclock' = wclock + 1
    /\ UNCHANGED <<watcher, published, watchRest>>

InitWatch ==
    /\ services = <<>>
    /\ now = 0
    /\ resp = NoneResp
    /\ RaftIdle
    /\ GateIdle
    /\ WatchIdle
    /\ ClientIdle
    /\ FwdIdle
    /\ StoreIdle
    /\ LateIdle

NextWatch ==
    \/ \E ns \in ReqNamespaces : WatchSubscribe(ns)
    \/ \E e \in WatchEvents : Publish(e)
    \/ WatchRecv
    \/ WatchTimeout
    \/ WatchTick

SpecWatch == InitWatch /\ [][NextWatch]_vars

(***************************************************************************)
(* SpecClient: ConfigClient of conreg-client, its compensate task and the  *)
(* configs of the server it subscribes to                                  *)
(***************************************************************************)
\* Duration::from_secs(60) of start_compensate
COMPENSATE_PERIOD == 60

\* ConfigConfig.config_ids, in the order of the list
ConfigIds == <<"app.yaml", "db.yaml">>

\* serde_yaml::Value: a Mapping keeps its entries in the order of insertion,
\* every other value is a leaf; a key is a Value too
YamlMap(entries) == [kind |-> "map", entries |-> entries]
YamlLeaf(v) == [kind |-> "leaf", v |-> v]
YamlError == [kind |-> "error"]
StringKey(s) == [kind |-> "String", s |-> s]
NumberKey(s) == [kind |-> "Number", s |-> s]
BoolKey(s) == [kind |-> "Bool", s |-> s]
YamlEntry(key, value) == [key |-> key, value |-> value]

\* the contents an admin stores in a config; the server does not parse them
ClientContents == {"port: 1", "db:\n  port: 2", "db:\n  host: h", "port: ["}

\* serde_yaml::from_str
from_str(content) ==
    CASE content = "port: 1" ->
            YamlMap(<<YamlEntry(StringKey("port"), YamlLeaf("1"))>>)
      [] content = "db:\n  port: 2" ->
            YamlMap(<<YamlEntry(StringKey("db"),
                        YamlMap(<<YamlEntry(StringKey("port"), YamlLeaf("2"))>>))>>)
      [] content = "db:\n  host: h" ->
            YamlMap(<<YamlEntry(StringKey("db"),
                        YamlMap(<<YamlEntry(StringKey("host"), YamlLeaf("h"))>>))>>)
      [] OTHER -> YamlError

\* a lookup that never finds the key
IndexOfKeyNone(entries, key) == 0

\* Mapping::contains_key / get_mut: the position of the key, 0 when absent
IndexOfKey(entries, key) ==
    IF \E i \in 1..Len(entries) : entries[i].key = key
    THEN CHOOSE i \in 1..Len(entries) : entries[i].key = key
    ELSE 0

\* Configs::merge_yaml_values: the target after the merge; MergeEntries is
\* its loop over the entries of source_map from position i on
RECURSIVE merge_yaml_values(_, _)
RECURSIVE MergeEntries(_, _, _)
MergeEntries(target_map, source_map, i) ==
    IF i > Len(source_map) THEN target_map
    ELSE LET key == source_map[i].key
             value == source_map[i].value
             at == IndexOfKey(target_map, key)
         IN  IF at # 0
             THEN MergeEntries(
                    [target_map EXCEPT ![at].value = merge_yaml_values(@, value)],
                    source_map, i + 1)
             ELSE MergeEntries(Append(target_map, YamlEntry(key, value)),
                               source_map, i + 1)

merge_yaml_values(target, source) ==
    IF target.kind = "map" /\ source.kind = "map"
    THEN YamlMap(MergeEntries(target.entries, source.entries, 1))
    ELSE source

\* the match on the key in flatten_yaml_value
key_str(key) ==
    CASE key.kind = "String" -> key.s
      [] key.kind = "Number" -> key.s
      [] OTHER -> "unknown"

\* the new_prefix of flatten_yaml_value
new_prefix(prefix, key) ==
    IF prefix = "" THEN key_str(key) ELSE prefix \o "." \o key_str(key)

\* HashMap::insert
HashMapInsert(map, k, v) ==
    [x \in DOMAIN map \cup {k} |-> IF x = k THEN v ELSE map[x]]

\* Configs::flatten_yaml_value: the result map after the call; FlattenEntries
\* is its loop over the entries of the mapping from position i on
RECURSIVE flatten_yaml_value(_, _, _)
RECURSIVE FlattenEntries(_, _, _, _)
FlattenEntries(result, prefix, mapping, i) ==
    IF i > Len(mapping) THEN result
    ELSE FlattenEntries(
            flatten_yaml_value(result, new_prefix(prefix, mapping[i].key),
                               mapping[i].value),
            prefix, mapping, i + 1)

flatten_yaml_value(result, prefix, value) ==
    IF value.kind = "map"
    THEN FlattenEntries(result, prefix, value.entries, 1)
    ELSE HashMapInsert(result, prefix, value.v)

\* the merge of Configs::from_contents over the contents from position i on
RECURSIVE MergeContents(_, _, _)
MergeContents(contents, i, merged) ==
    IF i > Len(contents) THEN merged
    ELSE IF contents[i] = "" THEN MergeContents(contents, i + 1, merged)
    ELSE IF from_str(contents[i]) = YamlError THEN YamlError
    ELSE MergeContents(contents, i + 1, merge_yaml_values(merged, from_str(contents[i])))

\* Configs::from_contents: the flattened configs, or the error of from_str
from_contents(contents) ==
    LET merged == MergeContents(contents, 1, YamlMap(<<>>))
    IN  IF merged = YamlError
        THEN YamlError
        ELSE [kind |-> "configs", configs |-> flatten_yaml_value(<<>>, "", merged),
              content |-> merged]

\* the contents that fetch_config returns for the subscribed ids, in order
Fetched == [i \in DOMAIN ConfigIds |-> srv[ConfigIds[i]]]

\* the flattened merge of what the server holds now
ServerView == from_contents(Fetched)

\* the age of the difference between the view and a server that parses
AgeAfter(sv, vw, age) ==
    IF sv # YamlError /\ vw # sv.configs
    THEN IF age > COMPENSATE_PERIOD + 1 THEN age ELSE age + 1
    ELSE 0

\* an admin stores another content in a subscribed config
ServerChange(id, content) ==
    /\ changes < MaxChanges
    /\ srv[id] # content
    /\ srv' = [srv EXCEPT ![id] = content]
    /\ changes' = changes + 1
    /\ stale_age' = 0
    /\ UNCHANGED <<view, comp, clientRest>>

\* start_compensate: the sleep is over, every config is fetched and
\* AppConfig::reload swaps the configs in; the unwrap of from_contents ends
\* the task when a content does not parse
Compensate ==
    /\ comp.alive
    /\ comp.slept = COMPENSATE_PERIOD
    /\ IF from_contents(Fetched) = YamlError
       THEN /\ comp' = [comp EXCEPT !.alive = FALSE]
            /\ UNCHANGED <<view, stale_age>>
       ELSE /\ view' = from_contents(Fetched).configs
            /\ comp' = [comp EXCEPT !.slept = 0]
            /\ stale_age' = 0
    /\ UNCHANGED <<srv, changes, clientRest>>

\* a second passes; a refresh that is due runs first
ClientTick ==
    /\ ~(comp.alive /\ comp.slept = COMPENSATE_PERIOD)
    /\ comp' = IF comp.alive THEN [comp EXCEPT !.slept = @ + 1] ELSE comp
    /\ stale_age' = AgeAfter(ServerView, view, stale_age)
    /\ UNCHANGED <<srv, view, changes, clientRest>>

\* ConfigClient::load has fetched every subscribed config and started the
\* compensate task; the watch task never reports a change
InitClient ==
    /\ services = <<>>
    /\ now = 0
    /\ resp = NoneResp
    /\ RaftIdle
    /\ GateIdle
    /\ WatchIdle
    /\ srv = [id \in Range(ConfigIds) |->
                IF id = "app.yaml" THEN "port: 1" ELSE "db:\n  port: 2"]
    /\ view = from_contents(<<"port: 1", "db:\n  port: 2">>).configs
    /\ comp = [alive |-> TRUE, slept |-> 0]
    /\ stale_age = 0
    /\ changes = 0
    /\ FwdIdle
    /\ StoreIdle
    /\ LateIdle

NextClient ==
    \/ \E id \in Range(ConfigIds), c \in ClientContents : ServerChange(id, c)
    \/ Compensate
    \/ ClientTick

SpecClient == InitClient /\ [][NextClient]_vars

\* the loop of start_compensate over config_ids from position i on: the
\* content of a fetch that succeeds is pushed, a fetch that fails is logged
RECURSIVE PushFetched(_, _, _)
PushFetched(i, reached, contents) ==
    IF i > Len(ConfigIds) THEN contents
    ELSE PushFetched(i + 1, reached,
                     IF i \in reached THEN Append(contents, Fetched[i])
                     ELSE contents)

\* the fetches of one refresh that succeed, when not all of them do
PartlyReached == (SUBSET DOMAIN ConfigIds) \ {DOMAIN ConfigIds}

\* start_compensate when fetch_config fails for the configs outside
\* reached: AppConfig::reload swaps in what from_contents makes of the
\* contents that were pushed
CompensatePartly(reached) ==
    /\ comp.alive
    /\ comp.slept = COMPENSATE_PERIOD
    /\ reached \in PartlyReached
    /\ LET configs == from_contents(PushFetched(1, reached, <<>>))
       IN  IF configs = YamlError
           THEN /\ comp' = [comp EXCEPT !.alive = FALSE]
                /\ UNCHANGED <<view, stale_age>>
           ELSE /\ view' = configs.configs
                /\ comp' = [comp EXCEPT !.slept = 0]
                /\ stale_age' = IF configs = ServerView THEN 0 ELSE stale_age
    /\ UNCHANGED <<srv, changes, clientRest>>

\* SpecRefresh: the compensate task next to a server that is not always
\* reached
NextRefresh ==
    \/ \E id \in Range(ConfigIds), c \in ClientContents : ServerChange(id, c)
    \/ Compensate
    \/ \E reached \in SUBSET DOMAIN ConfigIds : CompensatePartly(reached)
    \/ ClientTick

SpecRefresh == InitClient /\ [][NextRefresh]_vars

(***************************************************************************)
(* SpecReload: the watch task of ConfigClient next to the compensate task  *)
(* and the listeners of Configs::add_listener                              *)
(***************************************************************************)
\* the config ids that listeners were added for with Configs::add_listener
ListenedIds == {"app.yaml"}

\* an admin stores another content in a subscribed config; the server
\* publishes the id, and a long poll that is waiting receives the first
\* id published since it subscribed
WatchedChange(id, content) ==
    /\ changes < MaxChanges
    /\ srv[id] # content
    /\ srv' = [srv EXCEPT ![id] = content]
    /\ changes' = changes + 1
    /\ stale_age' = 0
    /\ wtask' = IF wtask.pc = "poll" /\ wtask.pending = <<>>
                THEN [wtask EXCEPT !.pending = <<id>>]
                ELSE wtask
    /\ UNCHANGED <<view, comp, notified, reloadRest>>

\* start_watch, Ok(changed_config_id) with Some(id): every subscribed config
\* is fetched, Configs::from_contents(contents).unwrap() ends the task when a
\* content does not parse, else AppConfig::reload swaps the configs in
WatchReload ==
    /\ wtask.pc = "poll"
    /\ wtask.pending # <<>>
    /\ IF from_contents(Fetched) = YamlError
       THEN /\ wtask' = [wtask EXCEPT !.pc = "dead", !.pending = <<>>]
            /\ UNCHANGED <<view, stale_age>>
       ELSE /\ view' = from_contents(Fetched).configs
            /\ wtask' = [pc |-> "notify", pending |-> <<>>,
                         changed |-> wtask.pending,
                         new_configs |-> from_contents(Fetched).configs]
            /\ stale_age' = 0
    /\ UNCHANGED <<srv, comp, changes, notified, reloadRest>>

\* notify_config_change(&changed_config_id.unwrap(), &new_configs): every
\* handler added for the id is called with the map built before the reload;
\* served is what AppConfig::get reads at the time of the call
WatchNotify ==
    /\ wtask.pc = "notify"
    /\ notified' = IF wtask.changed[1] \in ListenedIds
                   THEN Append(notified, [config_id |-> wtask.changed[1],
                                          changed_configs |-> wtask.new_configs,
                                          served |-> view])
                   ELSE notified
    /\ wtask' = WatchPolling
    /\ UNCHANGED <<clientVars, reloadRest>>

\* ConfigClient::load has fetched every subscribed config and started the
\* watch task and the compensate task
InitReload ==
    /\ services = <<>>
    /\ now = 0
    /\ resp = NoneResp
    /\ RaftIdle
    /\ GateIdle
    /\ WatchIdle
    /\ srv = [id \in Range(ConfigIds) |->
                IF id = "app.yaml" THEN "port: 1" ELSE "db:\n  port: 2"]
    /\ view = from_contents(<<"port: 1", "db:\n  port: 2">>).configs
    /\ comp = [alive |-> TRUE, slept |-> 0]
    /\ stale_age = 0
    /\ changes = 0
    /\ FwdIdle
    /\ StoreIdle
    /\ SnapIdle
    /\ ReloadIdle
    /\ BeatIdle
    /\ AddrIdle
    /\ YamlIdle
    /\ TailIdle

NextReload ==
    \/ \E id \in Range(ConfigIds), c \in ClientContents : WatchedChange(id, c)
    \/ WatchReload
    \/ WatchNotify
    \/ Compensate
    \/ ClientTick

SpecReload == InitReload /\ [][NextReload]_vars

\* start_watch, Ok(changed_config_id) with None: the long poll has ended
\* with no change
WatchEmpty ==
    /\ wtask.pc = "poll"
    /\ wtask.pending = <<>>
    /\ wtask' = [wtask EXCEPT !.pc = "empty"]
    /\ UNCHANGED <<clientVars, notified, reloadRest>>

\* start_watch, Err(e): the watch request has failed, whatever the server
\* had to tell; the task sleeps 0.5 s
WatchError ==
    /\ wtask.pc = "poll"
    /\ wtask' = [wtask EXCEPT !.pc = "sleep", !.pending = <<>>]
    /\ UNCHANGED <<clientVars, notified, reloadRest>>

\* the loop of start_watch comes back to HTTP.get after the continue or
\* after the sleep
WatchPollAgain ==
    /\ wtask.pc \in {"empty", "sleep"}
    /\ wtask' = WatchPolling
    /\ UNCHANGED <<clientVars, notified, reloadRest>>

\* start_watch, Ok(changed_config_id) with Some(id), and a fetch_config of
\* the reload returns Err: the unwrap of the result ends the task
WatchFetchError ==
    /\ wtask.pc = "poll"
    /\ wtask.pending # <<>>
    /\ wtask' = [wtask EXCEPT !.pc = "dead", !.pending = <<>>]
    /\ UNCHANGED <<clientVars, notified, reloadRest>>

\* SpecWatchTask: the watch task alone, with requests that fail
NextWatchTask ==
    \/ \E id \in Range(ConfigIds), c \in ClientContents : WatchedChange(id, c)
    \/ WatchReload
    \/ WatchNotify
    \/ WatchEmpty
    \/ WatchError
    \/ WatchPollAgain
    \/ WatchFetchError

SpecWatchTask == InitReload /\ [][NextWatchTask]_vars

(***************************************************************************)
(* SpecBeat: the heartbeat task of client/src/discovery.rs against the     *)
(* discovery engine of one server                                          *)
(***************************************************************************)
\* the local clock of the heartbeat model runs from 0 to MaxBeatTime seconds
MaxBeatTime == 16

\* Duration::from_secs(5) of start_heartbeat
HEARTBEAT_INTERVAL == 5

\* ConRegConfig.service_id and ClientConfig.address, port of the client
BeatService == "svc1"
BeatEndpoint == <<"10.0.0.1", 9000>>

\* ClientConfig::gen_instance_id: format!("{:x}", md5(address:port))
gen_instance_id(address, port) ==
    CASE address = "10.0.0.1" /\ port = 9000 -> "d58f0687658cafe294eb1ae6b69872f6"
      [] address = "10.0.0.2" /\ port = 9000 -> "2c7b44c4a2cdc5c9996acc38680e8109"
      [] OTHER -> "ffffffffffffffffffffffffffffffff"

\* a heartbeat loop that logs NoInstanceFound and goes on
on_result_continue(result) == "tick"

\* the match on the HeartbeatResult in start_heartbeat: what the task does next
on_result(result) == IF result = "NoInstanceFound" THEN "reregister" ELSE "tick"

\* interval_timer.tick() is due and client.heartbeat() is posted; a request
\* that fails is logged and the loop goes on
BeatSend(delivered) ==
    /\ hb.pc = "tick"
    /\ now = hb.next
    /\ IF delivered
       THEN /\ heartbeat(BeatService, gen_instance_id(BeatEndpoint[1], BeatEndpoint[2]))
            /\ hb' = [pc |-> on_result(resp'.result),
                      next |-> hb.next + HEARTBEAT_INTERVAL,
                      reregistered |-> FALSE,
                      first_after |-> hb.reregistered]
       ELSE /\ resp' = [op |-> "heartbeat_error"]
            /\ hb' = [pc |-> "tick", next |-> hb.next + HEARTBEAT_INTERVAL,
                      reregistered |-> FALSE, first_after |-> FALSE]
            /\ UNCHANGED services
    /\ UNCHANGED <<now, beatRest>>

\* HeartbeatResult::NoInstanceFound => client.register()
BeatReRegister ==
    /\ hb.pc = "reregister"
    /\ register_instance(BeatService, BeatEndpoint[1], BeatEndpoint[2])
    /\ hb' = [hb EXCEPT !.pc = "tick", !.reregistered = TRUE, !.first_after = FALSE]
    /\ UNCHANGED <<now, beatRest>>

\* a second passes while the task waits for its next tick
BeatClock ==
    /\ hb.pc = "tick"
    /\ now < hb.next
    /\ now < MaxBeatTime
    /\ now' = now + 1
    /\ resp' = [op |-> "clock"]
    /\ UNCHANGED <<services, hb, beatRest>>

\* Conreg::init has registered the instance and Discovery::new has started
\* the heartbeat task, whose first tick is due at once
InitBeat ==
    /\ now = 0
    /\ services = [s \in {BeatService} |->
                      <<NewInstance(BeatService, BeatEndpoint[1], BeatEndpoint[2])>>]
    /\ resp = NoneResp
    /\ RaftIdle
    /\ GateIdle
    /\ WatchIdle
    /\ ClientIdle
    /\ FwdIdle
    /\ StoreIdle
    /\ SnapIdle
    /\ ReloadIdle
    /\ hb = [pc |-> "tick", next |-> 0, reregistered |-> FALSE, first_after |-> FALSE]
    /\ AddrIdle
    /\ YamlIdle
    /\ TailIdle

NextBeat ==
    \/ \E delivered \in BOOLEAN : BeatSend(delivered)
    \/ BeatReRegister
    \/ BeatClock
    \/ HeartbeatCheckTick
    \/ CleanupTick

SpecBeat == InitBeat /\ [][NextBeat]_vars

(***************************************************************************)
(* SpecAddr: ServerAddr::build_url and the outbound calls of the clients   *)
(***************************************************************************)
\* the most attempts of one kind of call
MaxAttempts == 2

\* the addresses a ServerAddr names
ServerAddresses == <<"10.1.0.1:8000", "10.1.0.2:8000">>

\* ConfigConfig.server_addr and DiscoveryConfig.server_addr as configured
ServerAddrs ==
    { [kind |-> "Single", address |-> ServerAddresses[1]],
      [kind |-> "Cluster", addresses |-> ServerAddresses],
      [kind |-> "Cluster", addresses |-> <<ServerAddresses[2]>>] }

\* the calls that build their url inside the function that sends them
PerCallKinds == {"/api/config/get", "/discovery/heartbeat"}
WatchPath == "/api/config/watch"

\* ServerAddr::build_url: format!("http://{}{}", address, path), with
\* addresses[rng().random_range(0..addresses.len())] drawn as pick
build_url(server_addr, path, pick) ==
    CASE server_addr.kind = "Single" ->
            [ok |-> TRUE, scheme |-> "http://", address |-> server_addr.address,
             path |-> path]
      [] server_addr.kind = "Cluster" ->
            [ok |-> TRUE, scheme |-> "http://",
             address |-> server_addr.addresses[pick], path |-> path]
      [] OTHER -> [ok |-> FALSE, error |-> "discovery server address not set"]

\* the values random_range(0..addresses.len()) can return, counted from 1
Picks(server_addr) ==
    IF server_addr.kind = "Cluster" THEN 1..Len(server_addr.addresses) ELSE {1}

\* HTTP.get / HTTP.post: the request goes to the address of the url; built is
\* the attempt that the url was built for
Send(url, built, attempt, retry) ==
    [path |-> url.path, address |-> url.address, ok |-> url.address \in net.up,
     attempt |-> attempt, built |-> built, retry |-> retry]

\* fetch_config and heartbeat (register and fetch_instances alike): build_url,
\* then the request; an error is returned to the caller, which tries again
AddrCall(path, pick) ==
    LET url == build_url(net.server_addr, path, pick)
        attempt == net.attempts[path] + 1
        call == Send(url, attempt, attempt, net.failed[path])
    IN  /\ pick \in Picks(net.server_addr)
        /\ net.attempts[path] < MaxAttempts
        /\ url.ok
        /\ net' = [net EXCEPT !.attempts[path] = attempt,
                              !.failed[path] = ~call.ok,
                              !.last = call]
        /\ UNCHANGED addrRest

\* one turn of the loop of start_watch: HTTP.get(&url, ..) with the url that
\* was built before the loop; on Err the task sleeps 0.5 s and loops
AddrWatchPoll ==
    LET attempt == net.attempts[WatchPath] + 1
        call == Send(net.watch_url, 1, attempt, net.failed[WatchPath])
    IN  /\ net.attempts[WatchPath] < MaxAttempts
        /\ net' = [net EXCEPT !.attempts[WatchPath] = attempt,
                              !.failed[WatchPath] = ~call.ok,
                              !.last = call]
        /\ UNCHANGED addrRest

\* a server stops or starts answering
AddrServerFlip(address) ==
    /\ net' = [net EXCEPT !.up = IF address \in @ THEN @ \ {address}
                                 ELSE @ \cup {address}]
    /\ UNCHANGED addrRest

\* no call was sent yet
NoCall == [path |-> "", address |-> "", ok |-> FALSE, attempt |-> 0, built |-> 0,
           retry |-> FALSE]

\* the clients are configured and start_watch has built its url
InitAddr ==
    /\ services = <<>>
    /\ now = 0
    /\ resp = NoneResp
    /\ RaftIdle
    /\ GateIdle
    /\ WatchIdle
    /\ ClientIdle
    /\ FwdIdle
    /\ StoreIdle
    /\ SnapIdle
    /\ ReloadIdle
    /\ BeatIdle
    /\ \E server_addr \in ServerAddrs, pick \in 1..Len(ServerAddresses) :
          /\ pick \in Picks(server_addr)
          /\ net = [server_addr |-> server_addr,
                    up |-> Range(ServerAddresses),
                    watch_url |-> build_url(server_addr, WatchPath, pick),
                    attempts |-> [p \in PerCallKinds \cup {WatchPath} |-> 0],
                    failed |-> [p \in PerCallKinds \cup {WatchPath} |-> FALSE],
                    last |-> NoCall]
    /\ YamlIdle
    /\ TailIdle

NextAddr ==
    \/ \E path \in PerCallKinds, pick \in 1..Len(ServerAddresses) : AddrCall(path, pick)
    \/ AddrWatchPoll
    \/ \E address \in Range(ServerAddresses) : AddrServerFlip(address)

SpecAddr == InitAddr /\ [][NextAddr]_vars

(***************************************************************************)
(* SpecYaml: Configs::from_contents on parsed documents: the merge in list *)
(* order, then the flattening                                              *)
(***************************************************************************)
\* the most entries of a mapping of a document
MaxWidth == 2

\* the mappings of at most MaxWidth entries with distinct keys
Mappings(keys, values) ==
    LET Entries == {YamlEntry(k, v) : k \in keys, v \in values}
        Distinct(e) == \A i, j \in DOMAIN e : i # j => e[i].key # e[j].key
    IN  {YamlMap(e) : e \in {x \in UNION {[1..n -> Entries] : n \in 0..MaxWidth} :
                                Distinct(x)}}

\* scalars
YamlLeaves == {YamlLeaf("1"), YamlLeaf("2")}

\* the documents that are flattened alone: keys with a dot, the empty key,
\* a number, a boolean
FlattenKeys == {StringKey("a"), StringKey("a.b"), StringKey(""), BoolKey("true")}
FlattenDocs ==
    Mappings(FlattenKeys,
             YamlLeaves \cup Mappings({StringKey("b"), NumberKey("1")}, YamlLeaves))

\* the documents that are merged: the mappings below the root
MergeInner ==
    { YamlMap(<<>>),
      YamlMap(<<YamlEntry(StringKey("x"), YamlLeaf("1"))>>),
      YamlMap(<<YamlEntry(StringKey("x"), YamlLeaf("2")),
                YamlEntry(StringKey("y"), YamlLeaf("3"))>>),
      YamlMap(<<YamlEntry(StringKey("y"), YamlLeaf("1"))>>) }
MergeDocs ==
    Mappings({StringKey("a"), StringKey("b")}, YamlLeaves \cup MergeInner)
        \cup {YamlLeaf("1")}

\* the loop of Configs::from_contents over parsed documents from position i on
RECURSIVE MergeDocuments(_, _, _)
MergeDocuments(documents, i, merged_config) ==
    IF i > Len(documents) THEN merged_config
    ELSE MergeDocuments(documents, i + 1,
                        merge_yaml_values(merged_config, documents[i]))

\* from_contents: every document is merged into Value::Mapping(Mapping::new())
YamlMerge ==
    /\ yaml.pc = "parsed"
    /\ yaml' = [yaml EXCEPT !.pc = "merged",
                            !.content = MergeDocuments(yaml.documents, 1, YamlMap(<<>>))]
    /\ UNCHANGED yamlRest

\* from_contents: flatten_yaml_value(&mut configs, "", &merged_config)
YamlFlatten ==
    /\ yaml.pc = "merged"
    /\ yaml' = [yaml EXCEPT !.pc = "flat",
                            !.configs = flatten_yaml_value(<<>>, "", yaml.content)]
    /\ UNCHANGED yamlRest

\* the contents of the subscribed configs have been parsed: one document per
\* config id, or one document alone
InitYaml ==
    /\ services = <<>>
    /\ now = 0
    /\ resp = NoneResp
    /\ RaftIdle
    /\ GateIdle
    /\ WatchIdle
    /\ ClientIdle
    /\ FwdIdle
    /\ StoreIdle
    /\ SnapIdle
    /\ ReloadIdle
    /\ BeatIdle
    /\ AddrIdle
    /\ TailIdle
    /\ \E documents \in [DOMAIN ConfigIds -> MergeDocs]
                            \cup {<<d>> : d \in FlattenDocs} :
          yaml = [pc |-> "parsed", documents |-> documents,
                  content |-> YamlMap(<<>>), configs |-> <<>>]

NextYaml ==
    \/ YamlMerge
    \/ YamlFlatten

SpecYaml == InitYaml /\ [][NextYaml]_vars

(***************************************************************************)
(* SpecNsRace: NamespaceManager::get_namespace running next to the apply   *)
(* of an UpsertNamespace or DeleteNamespace on one node                    *)
(***************************************************************************)
\* the most namespace commands applied
MaxApplies == 2

\* the requests that read a namespace at the same time
Readers == {"r1", "r2"}

\* the namespace that the commands and the reads name
RaceNamespace == "dev"

\* the commands applied: UpsertNamespace with each auth setting, DeleteNamespace
RaceCommands ==
    { [cmd |-> "UpsertNamespace",
       namespace |-> [id |-> RaceNamespace, name |-> RaceNamespace, description |-> "",
                      is_auth |-> a[1], auth_token |-> a[2],
                      create_time |-> 0, update_time |-> 0]] : a \in ReqAuthSettings }
    \cup {[cmd |-> "DeleteNamespace", id |-> RaceNamespace]}

\* a read or an apply that is not running
IdleTask == [pc |-> "idle"]

\* get_namespace up to the await of the query: a hit returns at once, a miss
\* selects the row
RaceGetStart(r) ==
    /\ nsrace.reader[r].pc = "idle"
    /\ IF RaceNamespace \in DOMAIN nsrace.cache
       THEN nsrace' = [nsrace EXCEPT
                !.last = [by |-> r, namespace |-> nsrace.cache[RaceNamespace]]]
       ELSE nsrace' = [nsrace EXCEPT
                !.reader[r] = [pc |-> "selected",
                               namespace |-> SelectNamespace(nsrace.db, RaceNamespace)]]
    /\ UNCHANGED nsraceRest

\* get_namespace after the query: a row that was found is put into the cache
RaceGetFinish(r) ==
    LET namespace == nsrace.reader[r].namespace
    IN  /\ nsrace.reader[r].pc = "selected"
        /\ nsrace' = [nsrace EXCEPT
                !.reader[r] = IdleTask,
                !.cache = IF namespace # None
                          THEN [k \in DOMAIN @ \cup {RaceNamespace} |->
                                   IF k = RaceNamespace THEN namespace ELSE @[k]]
                          ELSE @,
                !.last = [by |-> r, namespace |-> namespace]]
        /\ UNCHANGED nsraceRest

\* upsert_namespace / delete_namespace up to the end of their statements: the
\* get_namespace of upsert_namespace, then the insert, update or deletes
RaceApplyPersist(req) ==
    /\ nsrace.apply.pc = "idle"
    /\ nsrace.applied < MaxApplies
    /\ nsrace' = [nsrace EXCEPT
            !.apply = [pc |-> "persisted", req |-> req],
            !.applied = @ + 1,
            !.db = GateHandle(nsrace.db, nsrace.cache, req).db,
            !.cache = IF req.cmd = "UpsertNamespace"
                      THEN CacheAfterGetNamespace(nsrace.db, nsrace.cache, RaceNamespace)
                      ELSE @]
    /\ UNCHANGED nsraceRest

\* self.cache.remove(id) that ends insert_namespace, update_namespace and
\* delete_namespace
RaceApplyInvalidate ==
    /\ nsrace.apply.pc = "persisted"
    /\ nsrace' = [nsrace EXCEPT !.apply = IdleTask,
                                !.cache = CacheRemove(@, RaceNamespace)]
    /\ UNCHANGED nsraceRest

\* a node with the schema's namespace table and an empty cache
InitNsRace ==
    /\ PriorIdle
    /\ LocalCacheIdle
    /\ DiscMapIdle
    /\ HopIdle
    /\ TokenIdle
    /\ nsrace = [db |-> [EmptyDb EXCEPT !.namespace = {PublicNamespace}],
                 cache |-> <<>>,
                 reader |-> [r \in Readers |-> IdleTask],
                 apply |-> IdleTask,
                 applied |-> 0,
                 last |-> [by |-> "none"]]

NextNsRace ==
    \/ \E r \in Readers : RaceGetStart(r)
    \/ \E r \in Readers : RaceGetFinish(r)
    \/ \E req \in RaceCommands : RaceApplyPersist(req)
    \/ RaceApplyInvalidate

SpecNsRace == InitNsRace /\ [][NextNsRace]_vars

(***************************************************************************)
(* POST /write and the forwarding to the leader (SpecForward)              *)
(***************************************************************************)
\* the longest log of the forwarding model
MaxFwdLog == 3

\* the RaftRequest values posted to /write
ReqKvRequests ==
    { [cmd |-> "Set", key |-> "k", value |-> "a"],
      [cmd |-> "Set", key |-> "k", value |-> "b"],
      [cmd |-> "Delete", key |-> "k"] }

\* the RaftResponse that apply_entry returns for a request
RaftResponse(data, req) ==
    CASE req.cmd = "Set" -> [value |-> <<req.value>>]
      [] req.cmd = "Delete" ->
            [value |-> IF req.key \in DOMAIN data THEN <<data[req.key]>> ELSE <<>>]
      [] OTHER -> [value |-> <<>>]

\* serde_json of a struct: the object as its set of members
to_json(struct) == { <<k, struct[k]>> : k \in DOMAIN struct }

\* the names of the members of a JSON object
JsonKeys(object) == { m[1] : m \in object }

\* the value of a member of a JSON object
JsonGet(object, key) == (CHOOSE m \in object : m[1] = key)[2]

\* Res<T>: code and msg are required, data is an Option
ResFromJson(object) ==
    IF {"code", "msg"} \subseteq JsonKeys(object)
    THEN <<[code |-> JsonGet(object, "code"),
            msg |-> JsonGet(object, "msg"),
            data |-> IF "data" \in JsonKeys(object)
                     THEN <<JsonGet(object, "data")>> ELSE <<>>]>>
    ELSE <<>>

\* an HTTP response: its status and its body, if it has one
HttpOk(object) == [status |-> 200, body |-> <<object>>]
HttpError(status) == [status |-> status, body |-> <<>>]

\* raft.client_write on the leader: the entry is appended and applied there
ClientWriteResponse(l, data, req) ==
    [log_id |-> Len(l) + 1, data |-> RaftResponse(data, req), membership |-> <<>>]

\* what the leader's /write answers: Ok(Json(response))
LeaderWrite(l, data, req) == HttpOk(to_json(ClientWriteResponse(l, data, req)))

\* forward_request_to_leader: post to the leader's /write and read the body
\* as a Res<ClientWriteResponse>
forward_request_to_leader(leader_response) ==
    LET result == IF leader_response.body = <<>>
                  THEN <<>>
                  ELSE ResFromJson(leader_response.body[1])
    IN  IF result = <<>>
        THEN HttpError(500)
        ELSE IF result[1].code = 0
             THEN HttpOk(result[1].data[1])
             ELSE HttpError(500)

\* write: the answer of the node n that was asked, leader_node being the
\* leader that a follower's ForwardToLeader error names
write(n, leader_node, leader_response) ==
    IF n = Leader
    THEN leader_response
    ELSE IF leader_node = <<>>
         THEN HttpError(500)
         ELSE forward_request_to_leader(leader_response)

\* POST /write of req to the node n
FwdWrite(n, req, leader_node) ==
    LET reaches_leader == n = Leader \/ leader_node # <<>>
        leader_response == LeaderWrite(log, sm[Leader].data, req)
    IN  /\ Len(log) < MaxFwdLog
        /\ sm[Leader].last_applied_log = Len(log)
        /\ n = Leader => leader_node = <<Leader>>
        /\ log' = IF reaches_leader THEN Append(log, req) ELSE log
        /\ sm' = IF reaches_leader
                 THEN [sm EXCEPT ![Leader] =
                          [last_applied_log |-> Len(log) + 1,
                           data |-> ApplyKv(sm[Leader].data, req)]]
                 ELSE sm
        /\ fwd' = [pc |-> "done", node |-> n, req |-> req,
                   leader_node |-> leader_node, log_before |-> log,
                   leader_response |-> IF reaches_leader
                                       THEN leader_response
                                       ELSE HttpError(500),
                   response |-> write(n, leader_node, leader_response)]
        /\ UNCHANGED <<snapshot, bus, handling, db, config_cache,
                       enable_cache_config, next_id, client, clock, membership,
                       replay, fwdRest>>

\* a cluster of two nodes; no /write was posted
InitForward ==
    /\ services = <<>>
    /\ now = 0
    /\ resp = NoneResp
    /\ log = <<>>
    /\ sm = [n \in Nodes |-> DefaultStateMachine]
    /\ snapshot = [n \in Nodes |-> None]
    /\ bus = [n \in Nodes |-> <<>>]
    /\ handling = [n \in Nodes |-> {}]
    /\ db = [n \in Nodes |-> EmptyDb]
    /\ config_cache = [n \in Nodes |-> <<>>]
    /\ enable_cache_config = FALSE
    /\ next_id = [n \in Nodes |-> 1]
    /\ client = IdleClient
    /\ clock = 0
    /\ membership = Nodes
    /\ replay = NoReplay
    /\ GateIdle
    /\ WatchIdle
    /\ ClientIdle
    /\ FwdIdle
    /\ StoreIdle
    /\ LateIdle

NextForward ==
    \/ \E n \in Nodes, req \in ReqKvRequests, leader_node \in {<<>>, <<Leader>>} :
          FwdWrite(n, req, leader_node)
    \/ \E n \in Nodes \ {Leader} : Apply(n)

SpecForward == InitForward /\ [][NextForward]_vars

(***************************************************************************)
(* SledLogStore: the Raft log and its metadata in a sled Db (SpecStore)    *)
(***************************************************************************)
\* the greatest index of a log entry
MaxIndex == 2
\* the greatest term of a log id or of a vote
MaxTerm == 2

\* LogId: the term of its leader and its index
LogIds == [leader_id : 1..MaxTerm, index : 0..MaxIndex]

\* Entry: its log id and its payload
NewLogEntry(log_id) == [log_id |-> log_id, payload |-> "Blank"]

\* the votes that save_vote is called with
ReqVotes == [leader_id : 1..MaxTerm, committed : {FALSE}]

\* u64::to_be_bytes, for an id below 2^31: the five high bytes are 0
to_be_bytes(id) ==
    [k \in 1..8 |-> IF k < 5 THEN 0 ELSE (id \div (256 ^ (8 - k))) % 256]

\* u64::from_be_bytes of such a key
from_be_bytes(key) ==
    key[5] * (256 ^ 3) + key[6] * (256 ^ 2) + key[7] * 256 + key[8]

\* the order of the keys of a sled tree: byte strings, compared from the left
BytesLess(a, b) ==
    \E i \in 1..8 : a[i] < b[i] /\ \A j \in 1..(i - 1) : a[j] = b[j]

\* serde_json of None
JsonNull == {<<"null">>}

\* serde_json::from_slice::<C::Entry>
EntryFromJson(object) ==
    [log_id |-> JsonGet(object, "log_id"), payload |-> JsonGet(object, "payload")]

\* serde_json::from_slice::<Option<LogId>>
OptionLogIdFromJson(object) ==
    IF object = JsonNull
    THEN <<>>
    ELSE <<[leader_id |-> JsonGet(object, "leader_id"),
            index |-> JsonGet(object, "index")]>>

\* serde_json::from_slice::<Vote>
VoteFromJson(object) ==
    [leader_id |-> JsonGet(object, "leader_id"),
     committed |-> JsonGet(object, "committed")]

\* the sled Db as the process sees it and as the disk holds it
SledDb(t, d) == [tree |-> t, disk |-> d]

\* Tree::flush and Tree::flush_async().await: every write made so far, in
\* any tree of the Db, is on the disk
flush(sled) == SledDb(sled.tree, sled.tree)

\* Tree::insert in the tree logs
insert_log(sled, key, value) ==
    [sled EXCEPT !.tree.logs =
        [k \in DOMAIN @ \cup {key} |-> IF k = key THEN value ELSE @[k]]]

\* Tree::apply_batch of a batch that removes keys of the tree logs
apply_batch(sled, keys) ==
    [sled EXCEPT !.tree.logs = [k \in DOMAIN @ \ keys |-> @[k]]]

\* put_meta: insert, then flush
put_meta(sled, key, value) ==
    flush([sled EXCEPT !.tree.meta =
              [k \in DOMAIN @ \cup {key} |-> IF k = key THEN value ELSE @[k]]])

\* get_meta
get_meta(t, key) == IF key \in DOMAIN t.meta THEN <<t.meta[key]>> ELSE <<>>

\* the entries of the tree logs
StoredEntries(t) == { EntryFromJson(t.logs[k]) : k \in DOMAIN t.logs }

\* Tree::last: the greatest key of the tree logs
LastKey(t) == CHOOSE k \in DOMAIN t.logs : \A j \in DOMAIN t.logs : ~BytesLess(k, j)

\* get_log_state
get_log_state(t) ==
    LET last_log_id == IF DOMAIN t.logs = {}
                       THEN <<>>
                       ELSE <<EntryFromJson(t.logs[LastKey(t)]).log_id>>
        bytes == get_meta(t, "last_purged_log_id")
        last_purged_log_id == IF bytes = <<>> THEN <<>> ELSE OptionLogIdFromJson(bytes[1])
    IN  [last_purged_log_id |-> last_purged_log_id,
         last_log_id |-> IF last_log_id # <<>> THEN last_log_id ELSE last_purged_log_id]

\* read_vote
read_vote(t) ==
    LET bytes == get_meta(t, "vote")
    IN  IF bytes = <<>> THEN <<>> ELSE <<VoteFromJson(bytes[1])>>

\* save_vote
save_vote(sled, vote) == put_meta(sled, "vote", to_json(vote))

\* append: insert every entry, then flush_async().await
RECURSIVE InsertEntries(_, _)
InsertEntries(sled, entries) ==
    IF entries = <<>>
    THEN sled
    ELSE InsertEntries(insert_log(sled, to_be_bytes(Head(entries).log_id.index),
                                  to_json(Head(entries))),
                       Tail(entries))

append(sled, entries) == flush(InsertEntries(sled, entries))

\* a truncate whose range starts after log_id.index
TruncateRangeExclusive(t, log_id) ==
    { k \in DOMAIN t.logs : BytesLess(to_be_bytes(log_id.index), k) }

\* the keys of tree.range(log_id.index.to_be_bytes()..)
TruncateRange(t, log_id) ==
    { k \in DOMAIN t.logs : ~BytesLess(k, to_be_bytes(log_id.index)) }

\* truncate: remove the keys from log_id.index on, then flush_async().await
truncate(sled, log_id) ==
    flush(apply_batch(sled, TruncateRange(sled.tree, log_id)))

\* the keys of the tree logs in the order of the tree
RECURSIVE KeysInOrder(_)
KeysInOrder(keys) ==
    IF keys = {}
    THEN <<>>
    ELSE LET first == CHOOSE k \in keys : \A j \in keys : ~BytesLess(j, k)
         IN  <<first>> \o KeysInOrder(keys \ {first})

\* try_get_log_entries(start..end): the entries of tree.range(start..) whose
\* id is below end, in the order of the tree
try_get_log_entries(t, start, end) ==
    LET keys == { k \in DOMAIN t.logs :
                     /\ ~BytesLess(k, to_be_bytes(start))
                     /\ from_be_bytes(k) < end }
        order == KeysInOrder(keys)
    IN  [i \in 1..Len(order) |-> EntryFromJson(t.logs[order[i]])]

\* a purge whose range ends before log_id.index
PurgeRangeExclusive(t, log_id) ==
    { k \in DOMAIN t.logs : BytesLess(k, to_be_bytes(log_id.index)) }

\* the keys of tree.range(..=log_id.index.to_be_bytes())
PurgeRange(t, log_id) ==
    { k \in DOMAIN t.logs : ~BytesLess(to_be_bytes(log_id.index), k) }

\* purge: put_meta of last_purged_log_id, then the batch; no flush follows
purge(sled, log_id) ==
    LET saved == put_meta(sled, "last_purged_log_id", to_json(log_id))
    IN  apply_batch(saved, PurgeRange(saved.tree, log_id))

\* the index of the entry that openraft appends next
NextIndex(t) ==
    LET last == get_log_state(t).last_log_id
    IN  IF last = <<>> THEN 0 ELSE last[1].index + 1

\* the term of the last log id: that of openraft's next entry is no smaller
LastTerm(t) ==
    LET last == get_log_state(t).last_log_id
    IN  IF last = <<>> THEN 1 ELSE last[1].leader_id

\* the entries of an append: consecutive indexes from NextIndex on
AppendInputs(t) ==
    { entries \in UNION { [1..n -> { NewLogEntry(id) : id \in LogIds }] : n \in 1..2 } :
        /\ \A i \in 1..Len(entries) : entries[i].log_id.index = NextIndex(t) + i - 1
        /\ entries[1].log_id.leader_id >= LastTerm(t)
        /\ \A i \in 1..(Len(entries) - 1) :
              entries[i].log_id.leader_id <= entries[i + 1].log_id.leader_id }

\* the log ids of the stored entries that are not purged
LiveLogIds(t) ==
    LET purged == get_log_state(t).last_purged_log_id
    IN  { e.log_id : e \in { s \in StoredEntries(t) :
                                purged = <<>> \/ s.log_id.index > purged[1].index } }

StoreAppend(entries) ==
    LET next == append(SledDb(tree, disk), entries)
        indexes == { entries[i].log_id.index : i \in 1..Len(entries) }
    IN  /\ tree' = next.tree
        /\ disk' = next.disk
        /\ acked' = [acked EXCEPT !.logs =
                        { e \in @ : e.log_id.index \notin indexes }
                            \cup { entries[i] : i \in 1..Len(entries) }]
        /\ store_resp' = [op |-> "append", before |-> tree]
        /\ UNCHANGED storeRest

StoreTruncate(log_id) ==
    LET next == truncate(SledDb(tree, disk), log_id)
    IN  /\ tree' = next.tree
        /\ disk' = next.disk
        /\ acked' = [acked EXCEPT !.logs = { e \in @ : e.log_id.index < log_id.index }]
        /\ store_resp' = [op |-> "truncate", log_id |-> log_id, before |-> tree]
        /\ UNCHANGED storeRest

StorePurge(log_id) ==
    LET next == purge(SledDb(tree, disk), log_id)
    IN  /\ tree' = next.tree
        /\ disk' = next.disk
        /\ acked' = [acked EXCEPT !.logs = { e \in @ : e.log_id.index > log_id.index },
                                  !.last_purged_log_id = <<log_id>>]
        /\ store_resp' = [op |-> "purge", log_id |-> log_id, before |-> tree]
        /\ UNCHANGED storeRest

StoreSaveVote(vote) ==
    LET next == save_vote(SledDb(tree, disk), vote)
    IN  /\ tree' = next.tree
        /\ disk' = next.disk
        /\ acked' = [acked EXCEPT !.vote = <<vote>>]
        /\ store_resp' = [op |-> "save_vote", vote |-> vote, before |-> tree]
        /\ UNCHANGED storeRest

\* the flusher thread of sled (Config::flush_every_ms, by default 500 ms)
BackgroundFlush ==
    /\ disk # tree
    /\ disk' = tree
    /\ UNCHANGED <<tree, acked, store_resp, storeRest>>

\* the process dies and the Db is opened again: it holds what was flushed
StoreCrash ==
    /\ store_resp.op # "crash"
    /\ tree' = disk
    /\ store_resp' = [op |-> "crash", before |-> tree]
    /\ UNCHANGED <<disk, acked, storeRest>>

\* new: the Db is opened, its trees are empty
InitStore ==
    /\ services = <<>>
    /\ now = 0
    /\ resp = NoneResp
    /\ RaftIdle
    /\ GateIdle
    /\ WatchIdle
    /\ ClientIdle
    /\ FwdIdle
    /\ StoreIdle
    /\ LateIdle

NextStore ==
    \/ \E entries \in AppendInputs(tree) : StoreAppend(entries)
    \/ \E log_id \in LiveLogIds(tree) : StoreTruncate(log_id)
    \/ \E log_id \in LiveLogIds(tree) : StorePurge(log_id)
    \/ \E vote \in ReqVotes : StoreSaveVote(vote)
    \/ BackgroundFlush
    \/ StoreCrash

SpecStore == InitStore /\ [][NextStore]_vars

(***************************************************************************)
(* StateMachineStore: the snapshots of the state machine and GET /read     *)
(* (SpecSnap)                                                              *)
(***************************************************************************)
\* the number of snapshots that are built or installed
MaxSnapshots == 2
\* the greatest index of an applied entry or of the log id of a snapshot
MaxSnapLog == 2

\* the StateMachineData values that the leader sends as snapshots
SnapshotInputs ==
    [last_applied_log : 1..MaxSnapLog, data : {<<>>, [k |-> "a"], [k |-> "b"]}]

\* serde_json::from_slice::<StateMachineData>
StateMachineDataFromJson(object) ==
    [last_applied_log |-> JsonGet(object, "last_applied_log"),
     data |-> JsonGet(object, "data")]

\* serde_json::from_slice::<StoredSnapshot>
StoredSnapshotFromJson(object) ==
    [meta |-> JsonGet(object, "meta"), data |-> JsonGet(object, "data")]

\* build_snapshot: the StoredSnapshot of a state machine
BuiltSnapshot(state_machine, snapshot_idx) ==
    [meta |-> [last_log_id |-> state_machine.last_applied_log,
               snapshot_id |-> <<state_machine.last_applied_log, snapshot_idx>>],
     data |-> to_json(state_machine)]

\* a flush_async that writes nothing to the disk
flush_nothing(sled) == sled

\* sm_meta_tree.flush_async().await
flush_async(sled) == flush(sled)

\* sm_meta_tree.insert("snapshot", serialized_snapshot)
insert_snapshot(sled, stored) ==
    [sled EXCEPT !.tree.snapshot = <<to_json(stored)>>]

\* get_current_snapshot
get_current_snapshot(sled) ==
    IF sled.tree.snapshot = <<>>
    THEN <<>>
    ELSE <<StoredSnapshotFromJson(sled.tree.snapshot[1])>>

\* StateMachineStore::new: the state machine of the current snapshot, or the
\* default one
RestoredStateMachine(sled) ==
    LET stored == get_current_snapshot(sled)
    IN  IF stored = <<>>
        THEN DefaultStateMachine
        ELSE StateMachineDataFromJson(stored[1].data)

\* build_snapshot holds the write lock of the state machine it serializes
\* until it returns
WriteLocked(arc) ==
    snap_task.build.pc = "inserted" /\ snap_task.build.arc = arc

\* apply_entry of a Set or a Delete on the state machine of the store
SnapApply(req) ==
    LET arc == sms.state_machine
        index == heap[arc].last_applied_log + 1
    IN  /\ index <= MaxSnapLog
        /\ ~WriteLocked(arc)
        /\ heap' = [heap EXCEPT ![arc] =
                       [last_applied_log |-> index, data |-> ApplyKv(@.data, req)]]
        /\ UNCHANGED <<sms, sm_db, snap_task, snap_hist, snap_resp, snapRest>>

\* get_snapshot_builder: the index grows and the store is cloned
BuildClone ==
    /\ snap_task.build.pc = "idle"
    /\ Len(snap_hist.written) < MaxSnapshots
    /\ sms' = [sms EXCEPT !.snapshot_idx = @ + 1]
    /\ snap_task' = [snap_task EXCEPT !.build =
                        [pc |-> "cloned", arc |-> sms.state_machine,
                         idx |-> sms.snapshot_idx + 1]]
    /\ UNCHANGED <<heap, sm_db, snap_hist, snap_resp, snapRest>>

\* build_snapshot up to the insert: lock, serialize, insert
BuildInsert ==
    LET build == snap_task.build
        stored == BuiltSnapshot(heap[build.arc], build.idx)
    IN  /\ build.pc = "cloned"
        /\ Len(snap_hist.written) < MaxSnapshots
        /\ sm_db' = insert_snapshot(sm_db, stored)
        /\ snap_hist' = [snap_hist EXCEPT !.written = Append(@, stored)]
        /\ snap_task' = [snap_task EXCEPT !.build =
                            [pc |-> "inserted", arc |-> build.arc, idx |-> build.idx,
                             pos |-> Len(snap_hist.written) + 1]]
        /\ UNCHANGED <<heap, sms, snap_resp, snapRest>>

\* build_snapshot from the flush on: it returns and the lock is released
BuildFlush ==
    /\ snap_task.build.pc = "inserted"
    /\ sm_db' = flush_async(sm_db)
    /\ snap_hist' = [snap_hist EXCEPT !.done_pos = snap_task.build.pos]
    /\ snap_task' = [snap_task EXCEPT !.build = [pc |-> "idle"]]
    /\ UNCHANGED <<heap, sms, snap_resp, snapRest>>

\* install_snapshot up to the insert: the data is parsed, self.state_machine
\* is a new Arc of it, the StoredSnapshot is inserted
InstallInsert(input) ==
    LET stored == [meta |-> [last_log_id |-> input.last_applied_log,
                               snapshot_id |-> <<input.last_applied_log, 0>>],
                     data |-> to_json(input)]
        arc == Len(heap) + 1
    IN  /\ snap_task.install.pc = "idle"
        /\ Len(snap_hist.written) < MaxSnapshots
        /\ input.last_applied_log > heap[sms.state_machine].last_applied_log
        /\ heap' = Append(heap, StateMachineDataFromJson(stored.data))
        /\ sms' = [sms EXCEPT !.state_machine = arc]
        /\ sm_db' = insert_snapshot(sm_db, stored)
        /\ snap_hist' = [snap_hist EXCEPT !.written = Append(@, stored)]
        /\ snap_task' = [snap_task EXCEPT !.install =
                            [pc |-> "inserted", pos |-> Len(snap_hist.written) + 1]]
        /\ UNCHANGED <<snap_resp, snapRest>>

\* install_snapshot from the flush on
InstallFlush ==
    /\ snap_task.install.pc = "inserted"
    /\ sm_db' = flush_async(sm_db)
    /\ snap_hist' = [snap_hist EXCEPT !.done_pos = snap_task.install.pos]
    /\ snap_task' = [snap_task EXCEPT !.install = [pc |-> "idle"]]
    /\ UNCHANGED <<heap, sms, snap_resp, snapRest>>

\* a call of get_current_snapshot
SnapGetCurrent ==
    /\ snap_resp' = [op |-> "get_current_snapshot",
                     result |-> get_current_snapshot(sm_db),
                     done_pos |-> snap_hist.done_pos,
                     crashed |-> snap_resp.op = "crash"]
    /\ UNCHANGED <<heap, sms, sm_db, snap_task, snap_hist, snapRest>>

\* GET /read?key: the data of get_app().state_machine
SnapRead(key) ==
    LET served == heap[sms.app].data
        maintained == heap[sms.state_machine].data
    IN  /\ ~WriteLocked(sms.app)
        /\ snap_resp' = [op |-> "read", key |-> key,
                         value |-> IF key \in DOMAIN served
                                   THEN <<served[key]>> ELSE <<>>,
                         state_machine |-> IF key \in DOMAIN maintained
                                           THEN <<maintained[key]>> ELSE <<>>,
                         installing |-> snap_task.install.pc # "idle"]
        /\ UNCHANGED <<heap, sms, sm_db, snap_task, snap_hist, snapRest>>

\* the flusher thread of sled
SnapBackgroundFlush ==
    /\ sm_db.disk # sm_db.tree
    /\ sm_db' = flush(sm_db)
    /\ UNCHANGED <<heap, sms, snap_task, snap_hist, snap_resp, snapRest>>

\* the process dies and starts again: raft::store::new and App::new
SnapCrash ==
    LET reopened == SledDb(sm_db.disk, sm_db.disk)
    IN  /\ snap_resp.op # "crash"
        /\ sm_db' = reopened
        /\ heap' = <<RestoredStateMachine(reopened)>>
        /\ sms' = [state_machine |-> 1, snapshot_idx |-> 0, app |-> 1]
        /\ snap_task' = IdleTasks
        /\ snap_resp' = [op |-> "crash"]
        /\ UNCHANGED <<snap_hist, snapRest>>

\* raft::store::new on an empty data directory, then App::new
InitSnap ==
    /\ services = <<>>
    /\ now = 0
    /\ resp = NoneResp
    /\ RaftIdle
    /\ GateIdle
    /\ WatchIdle
    /\ ClientIdle
    /\ FwdIdle
    /\ StoreIdle
    /\ ReloadIdle
    /\ BeatIdle
    /\ AddrIdle
    /\ YamlIdle
    /\ TailIdle
    /\ heap = <<DefaultStateMachine>>
    /\ sms = [state_machine |-> 1, snapshot_idx |-> 0, app |-> 1]
    /\ sm_db = SledDb(EmptySmMeta, EmptySmMeta)
    /\ snap_task = IdleTasks
    /\ snap_hist = [written |-> <<>>, done_pos |-> 0]
    /\ snap_resp = NoSnapResp

NextSnap ==
    \/ \E req \in ReqKvRequests : SnapApply(req)
    \/ BuildClone
    \/ BuildInsert
    \/ BuildFlush
    \/ \E input \in SnapshotInputs : InstallInsert(input)
    \/ InstallFlush
    \/ SnapGetCurrent
    \/ \E key \in {"k"} : SnapRead(key)
    \/ SnapBackgroundFlush
    \/ SnapCrash

SpecSnap == InitSnap /\ [][NextSnap]_vars

(***************************************************************************)
(* The configs of a namespace that is deleted (SpecCascade): a standalone  *)
(* node, the config dev/test.yaml, the namespace dev                       *)
(***************************************************************************)
\* the namespace that is deleted and its config
CascadeNamespace == "dev"
CascadeConfig == "test.yaml"

NextCascade ==
    \/ \E c \in ReqContents :
          Len(log) < MaxGateLog /\ ClientUpsert(CascadeNamespace, CascadeConfig, c)
    \/ ClientWriteReturns
    \/ GateDeleteNamespace(CascadeNamespace)
    \/ Apply(Leader)
    \/ HandlerRecv(Leader)
    \/ HandlerFinish(Leader)
    \/ CrashRestart(Leader)
    \/ GateConfigGet(CascadeNamespace, CascadeConfig, NoToken)

SpecCascade == InitRaft /\ [][NextCascade]_vars

InitDisc ==
    /\ services = <<>>
    /\ now = 0
    /\ resp = NoneResp
    /\ RaftIdle
    /\ RestIdle

NextDisc ==
    \/ \E s \in ReqServices : DiscRegisterService(s)
    \/ \E s \in ReqServices : DiscDeregisterService(s)
    \/ \E s \in ReqServices, e \in ReqEndpoints : DiscRegisterInstance(s, e[1], e[2])
    \/ \E s \in ReqServices, e \in ReqEndpoints :
          DiscDeregisterInstance(s, generate_id(e[1], e[2]))
    \/ \E s \in ReqServices, e \in ReqEndpoints :
          DiscHeartbeat(s, generate_id(e[1], e[2]))
    \/ HeartbeatCheckTick
    \/ CleanupTick
    \/ \E s \in ReqServices : QueryAvailable(s)
    \/ AdvanceClock

SpecDisc == InitDisc /\ [][NextDisc]_vars

(***************************************************************************)
(* LocalCache of server/src/cache/local_cache.rs (SpecLocalCache)          *)
(***************************************************************************)
\* the calls of insert in one run
MaxSets == 2
\* the seconds of one run
MaxCacheTime == 2
\* the key the calls are about
CacheKey == "token"
\* the values set
CacheValues == {"u1", "u2"}
\* ttl: None, or Some(seconds)
CacheTtls == {<<>>, <<1>>}

\* CacheEntry { k, v, ct, ttl }
CacheEntry(key, value, ct, ttl) == [k |-> key, v |-> value, ct |-> ct, ttl |-> ttl]

\* serde_json::from_slice::<CacheEntry>: all four members are required
CacheEntryFromJson(object) ==
    IF {"k", "v", "ct", "ttl"} \subseteq JsonKeys(object)
    THEN <<CacheEntry(JsonGet(object, "k"), JsonGet(object, "v"),
                      JsonGet(object, "ct"), JsonGet(object, "ttl"))>>
    ELSE <<>>

\* is_expired: a ttl of -1 never expires
is_expired(entry, time) ==
    IF entry.ttl = -1 THEN FALSE ELSE time - entry.ct >= entry.ttl

\* get_cache_entry: the memory first, then the disk, from which an entry
\* that has not expired is put back into the memory; the result is the
\* cache after the call and the entry found
get_cache_entry(c) ==
    IF c.memory # <<>>
    THEN IF is_expired(c.memory[1], c.time)
         THEN [memory |-> <<>>, disk |-> <<>>, entry |-> <<>>]
         ELSE [memory |-> c.memory, disk |-> c.disk, entry |-> c.memory]
    ELSE IF c.disk # <<>> /\ CacheEntryFromJson(c.disk[1]) # <<>>
         THEN LET entry == CacheEntryFromJson(c.disk[1])
              IN  IF ~is_expired(entry[1], c.time)
                  THEN [memory |-> entry, disk |-> c.disk, entry |-> entry]
                  ELSE [memory |-> <<>>, disk |-> <<>>, entry |-> <<>>]
         ELSE [memory |-> <<>>, disk |-> c.disk, entry |-> <<>>]

\* insert: the entry is put into the memory and its write to the disk is
\* spawned as a task of its own
CacheInsert(value, ttl) ==
    /\ lcache.pc = "open"
    /\ lcache.sets < MaxSets
    /\ LET entry == CacheEntry(CacheKey, value, lcache.time,
                               IF ttl = <<>> THEN -1 ELSE ttl[1])
       IN  lcache' = [lcache EXCEPT
               !.memory = <<entry>>,
               !.spawned = @ \cup {[n |-> lcache.sets + 1, entry |-> entry]},
               !.sets = @ + 1,
               !.removed = FALSE,
               !.last = [op |-> "insert"]]
    /\ UNCHANGED lcacheRest

\* the spawned task: serde_json::to_vec and db.insert
CacheDiskWrite(n) ==
    /\ lcache.pc = "open"
    /\ \E task \in lcache.spawned :
           /\ task.n = n
           /\ lcache' = [lcache EXCEPT
                  !.disk = <<to_json(task.entry)>>,
                  !.spawned = @ \ {task},
                  !.last = [op |-> "write"]]
    /\ UNCHANGED lcacheRest

\* remove: the memory, then the disk
LocalCacheRemove ==
    /\ lcache.pc = "open"
    /\ lcache' = [lcache EXCEPT
           !.memory = <<>>,
           !.disk = <<>>,
           !.removed = TRUE,
           !.last = [op |-> "remove"]]
    /\ UNCHANGED lcacheRest

\* get: the value of the entry found
CacheGet ==
    /\ lcache.pc = "open"
    /\ LET found == get_cache_entry(lcache)
       IN  lcache' = [lcache EXCEPT
               !.memory = found.memory,
               !.disk = found.disk,
               !.last = [op |-> "get",
                         value |-> IF found.entry = <<>> THEN <<>>
                                   ELSE <<found.entry[1].v>>,
                         removed |-> lcache.removed]]
    /\ UNCHANGED lcacheRest

\* a second passes
CacheClock ==
    /\ lcache.pc = "open"
    /\ lcache.time < MaxCacheTime
    /\ lcache' = [lcache EXCEPT !.time = @ + 1, !.last = [op |-> "clock"]]
    /\ UNCHANGED lcacheRest

\* LocalCache::new on an empty directory
InitLocalCache ==
    /\ PriorIdle
    /\ NsRaceIdle
    /\ DiscMapIdle
    /\ HopIdle
    /\ TokenIdle
    /\ lcache = [pc |-> "open", memory |-> <<>>, disk |-> <<>>, spawned |-> {},
                 time |-> 0, sets |-> 0, removed |-> FALSE,
                 last |-> [op |-> "none"]]

NextLocalCache ==
    \/ \E value \in CacheValues, ttl \in CacheTtls : CacheInsert(value, ttl)
    \/ \E n \in 1..MaxSets : CacheDiskWrite(n)
    \/ LocalCacheRemove
    \/ CacheGet
    \/ CacheClock

SpecLocalCache == InitLocalCache /\ [][NextLocalCache]_vars

(***************************************************************************)
(* DiscoveryManager::try_get_discovery (SpecDiscMap)                       *)
(***************************************************************************)
\* the calls of the discovery manager in one run
MaxAccesses == 3
\* the requests that run at the same time
Callers == {"c1", "c2"}
\* the namespaces asked for; "dev" exists, "gone" does not
AccessNamespaces == {"dev", "gone"}
ExistingNamespaces == {"dev"}

\* the registration of an instance in a Discovery sub-map
SubMapRegister(submap, service_id, ip, port) ==
    LET instance == NewInstance(service_id, ip, port)
        map == EntryOrInsert(submap, service_id, <<>>)
        retained == RetainOthers(map[service_id], instance.id)
    IN  [map EXCEPT ![service_id] = Append(retained, instance)]

\* the ids of the instances of a Discovery sub-map
SubMapIds(submap) ==
    UNION { { submap[s][i].id : i \in 1..Len(submap[s]) } : s \in DOMAIN submap }

\* try_get_discovery up to the await of get_namespace: a sub-map found in
\* discoveries is returned at once
TryGetStart(c, namespace_id) ==
    /\ dmgr.pc = "up"
    /\ dmgr.caller[c].pc = "idle"
    /\ dmgr.accesses < MaxAccesses
    /\ dmgr' = [dmgr EXCEPT
           !.accesses = @ + 1,
           !.caller[c] = IF namespace_id \in DOMAIN dmgr.discoveries
                         THEN [pc |-> "got", namespace_id |-> namespace_id,
                               discovery |-> dmgr.discoveries[namespace_id]]
                         ELSE [pc |-> "select", namespace_id |-> namespace_id],
           !.last = [op |-> "try_get_discovery"]]
    /\ UNCHANGED dmgrRest

\* try_get_discovery after get_namespace: a namespace that is not in the
\* table is an error; else a new Discovery is made, its timers are started
\* and it is inserted into discoveries
TryGetFinish(c) ==
    /\ dmgr.pc = "up"
    /\ dmgr.caller[c].pc = "select"
    /\ LET namespace_id == dmgr.caller[c].namespace_id
           discovery == Len(dmgr.heap) + 1
       IN  IF namespace_id \notin ExistingNamespaces
           THEN dmgr' = [dmgr EXCEPT
                    !.caller[c] = [pc |-> "idle"],
                    !.last = [op |-> "error", namespace_id |-> namespace_id]]
           ELSE dmgr' = [dmgr EXCEPT
                    !.heap = Append(@, <<>>),
                    !.timers = @ \cup {discovery},
                    !.discoveries =
                        [n \in DOMAIN dmgr.discoveries \cup {namespace_id} |->
                            IF n = namespace_id THEN discovery
                            ELSE dmgr.discoveries[n]],
                    !.caller[c] = [pc |-> "got", namespace_id |-> namespace_id,
                                   discovery |-> discovery],
                    !.last = [op |-> "insert", namespace_id |-> namespace_id]]
    /\ UNCHANGED dmgrRest

\* register_service_instance after try_get_discovery
RegisterServiceInstance(c, service_id, ip, port) ==
    /\ dmgr.pc = "up"
    /\ dmgr.caller[c].pc = "got"
    /\ LET discovery == dmgr.caller[c].discovery
       IN  dmgr' = [dmgr EXCEPT
               !.heap[discovery] = SubMapRegister(@, service_id, ip, port),
               !.registered = @ \cup {<<dmgr.caller[c].namespace_id,
                                        generate_id(ip, port)>>},
               !.caller[c] = [pc |-> "idle"],
               !.last = [op |-> "register_service_instance"]]
    /\ UNCHANGED dmgrRest

\* get_instances after try_get_discovery
GetServiceInstances(c) ==
    /\ dmgr.pc = "up"
    /\ dmgr.caller[c].pc = "got"
    /\ dmgr' = [dmgr EXCEPT
           !.caller[c] = [pc |-> "idle"],
           !.last = [op |-> "get_instances",
                     namespace_id |-> dmgr.caller[c].namespace_id,
                     ids |-> SubMapIds(dmgr.heap[dmgr.caller[c].discovery]),
                     registered |-> dmgr.registered]]
    /\ UNCHANGED dmgrRest

\* DiscoveryManager::new: discoveries is empty
InitDiscMap ==
    /\ PriorIdle
    /\ NsRaceIdle
    /\ LocalCacheIdle
    /\ HopIdle
    /\ TokenIdle
    /\ dmgr = [pc |-> "up", discoveries |-> <<>>, heap |-> <<>>, timers |-> {},
               caller |-> [c \in Callers |-> [pc |-> "idle"]],
               registered |-> {}, accesses |-> 0, last |-> [op |-> "none"]]

NextDiscMap ==
    \/ \E c \in Callers, n \in AccessNamespaces : TryGetStart(c, n)
    \/ \E c \in Callers : TryGetFinish(c)
    \/ \E c \in Callers, s \in ReqServices, e \in ReqEndpoints :
           RegisterServiceInstance(c, s, e[1], e[2])
    \/ \E c \in Callers : GetServiceInstances(c)

SpecDiscMap == InitDiscMap /\ [][NextDiscMap]_vars

(***************************************************************************)
(* POST /write between nodes with views of the leader (SpecHops)           *)
(***************************************************************************)
\* the longest chain of write handlers that wait for one another
MaxHops == 4
\* the POST /write requests of clients in one run
MaxWrites == 2
\* the nodes of the cluster
HopNodes == {"n1", "n2", "n3"}
\* the leader a node would name: None, or Some(node); the node that names
\* itself is the leader, and the others may name a node that was the leader
LeaderViews ==
    { v \in [HopNodes -> {<<>>} \cup { <<n>> : n \in HopNodes }] :
        Cardinality({ n \in HopNodes : v[n] = <<n>> }) <= 1 }

\* the top of the chain: the node whose write handler runs
HopTop == hop.chain[Len(hop.chain)]

\* a client posts a write to the node n
HopPost(n, req) ==
    /\ hop.pc \in {"idle", "done"}
    /\ hop.writes < MaxWrites
    /\ hop' = [hop EXCEPT !.pc = "write", !.chain = <<n>>, !.req = req,
                          !.forwards = 0, !.writes = @ + 1,
                          !.response = <<>>]
    /\ UNCHANGED hopRest

\* write on the node at the top of the chain, raft.client_write is Ok: the
\* node is the leader in its view, the entry is appended and applied
HopClientWrite ==
    /\ hop.pc = "write"
    /\ hop.view[HopTop] = <<HopTop>>
    /\ hop' = [hop EXCEPT
           !.pc = "return",
           !.log = Append(@, hop.req),
           !.data = ApplyKv(@, hop.req),
           !.response = <<LeaderWrite(hop.log, hop.data, hop.req)>>]
    /\ UNCHANGED hopRest

\* write, ForwardToLeader with leader_node None: 500
HopNoLeader ==
    /\ hop.pc = "write"
    /\ hop.view[HopTop] = <<>>
    /\ hop' = [hop EXCEPT !.pc = "return", !.response = <<HttpError(500)>>]
    /\ UNCHANGED hopRest

\* write, ForwardToLeader with leader_node Some(node): the request is
\* posted to /api/cluster/write of that node, whose write handler runs next
HopForward ==
    /\ hop.pc = "write"
    /\ hop.view[HopTop] \notin {<<>>, <<HopTop>>}
    /\ Len(hop.chain) < MaxHops
    /\ hop' = [hop EXCEPT !.chain = Append(@, hop.view[HopTop][1]),
                          !.forwards = @ + 1]
    /\ UNCHANGED hopRest

\* the handler at the top of the chain has answered: the node below reads
\* the answer in forward_request_to_leader, and the first node of the chain
\* answers the client
HopReturn ==
    /\ hop.pc = "return"
    /\ IF Len(hop.chain) = 1
       THEN hop' = [hop EXCEPT !.pc = "done", !.chain = <<>>]
       ELSE hop' = [hop EXCEPT
                !.chain = SubSeq(@, 1, Len(@) - 1),
                !.response = <<forward_request_to_leader(hop.response[1])>>]
    /\ UNCHANGED hopRest

\* a cluster of three nodes with any views of the leader, nothing written
InitHops ==
    /\ PriorIdle
    /\ NsRaceIdle
    /\ LocalCacheIdle
    /\ DiscMapIdle
    /\ TokenIdle
    /\ \E leaders \in LeaderViews :
           hop = [pc |-> "idle", view |-> leaders, chain |-> <<>>,
                  req |-> [cmd |-> "none"], forwards |-> 0, writes |-> 0,
                  log |-> <<>>, data |-> <<>>, response |-> <<>>]

NextHops ==
    \/ \E n \in HopNodes, req \in ReqKvRequests : HopPost(n, req)
    \/ HopClientWrite
    \/ HopNoLeader
    \/ HopForward
    \/ HopReturn

SpecHops == InitHops /\ [][NextHops]_vars

(***************************************************************************)
(* Login, logout and the token of an admin request (SpecToken)             *)
(***************************************************************************)
\* the logins of one run
MaxLogins == 2
\* uuid::Uuid::new_v4().to_string() of the n-th login
NewToken(n) == IF n = 1 THEN "3f0c" ELSE IF n = 2 THEN "9a41" ELSE "ffff"
\* the tokens a request may carry; "0000" was never issued
BearerTokens == {NewToken(1), NewToken(2), "0000"}
\* the user of the user table
AdminUser == "conreg"

\* CacheKey::UserToken(token).to_string()
UserTokenKey(token) == "oag:user:token:" \o token

\* serde_json::to_value of a UserPrincipal: token is skipped
PrincipalToValue(principal) == to_json([username |-> principal.username])

\* serde_json::from_value::<UserPrincipal>: username is required
PrincipalFromValue(value) ==
    IF "username" \in JsonKeys(value)
    THEN <<[username |-> JsonGet(value, "username"), token |-> ""]>>
    ELSE <<>>

\* UserPrincipal::from_request with a bearer token on the node n
from_request(n, token) ==
    LET key == UserTokenKey(token)
    IN  IF key \in DOMAIN tok.cache[n] /\ PrincipalFromValue(tok.cache[n][key]) # <<>>
        THEN [outcome |-> "Success",
              user |-> [PrincipalFromValue(tok.cache[n][key])[1]
                            EXCEPT !.token = token]]
        ELSE [outcome |-> "Unauthorized"]

\* login on any node: the CacheWrite of the new token is written to the
\* Raft log
TokLogin ==
    /\ tok.pc = "up"
    /\ Len(tok.log) < MaxLogins
    /\ LET token == NewToken(Len(tok.log) + 1)
       IN  tok' = [tok EXCEPT
               !.log = Append(@, [cmd |-> "CacheWrite",
                                  key |-> UserTokenKey(token),
                                  value |-> PrincipalToValue(
                                      [username |-> AdminUser, token |-> token]),
                                  ttl |-> <<604800>>]),
               !.last = [op |-> "login", token |-> token]]
    /\ UNCHANGED tokRest

\* handle_raft_request of the next CacheWrite on the node n: cache::set
TokApply(n) ==
    /\ tok.pc = "up"
    /\ tok.applied[n] < Len(tok.log)
    /\ LET entry == tok.log[tok.applied[n] + 1]
       IN  tok' = [tok EXCEPT
               !.applied[n] = @ + 1,
               !.cache[n] = HashMapInsert(@, entry.key, entry.value),
               !.last = [op |-> "apply", node |-> n]]
    /\ UNCHANGED tokRest

\* logout on the node n of a user whose request carried the token:
\* cache::remove on that node
TokLogout(n, token) ==
    /\ tok.pc = "up"
    /\ from_request(n, token).outcome = "Success"
    /\ tok' = [tok EXCEPT
           !.cache[n] = [k \in DOMAIN @ \ {UserTokenKey(token)} |-> @[k]],
           !.logged_out = @ \cup {token},
           !.last = [op |-> "logout", node |-> n, token |-> token]]
    /\ UNCHANGED tokRest

\* an admin request with a bearer token on the node n
TokRequest(n, token) ==
    /\ tok.pc = "up"
    /\ tok' = [tok EXCEPT
           !.last = [op |-> "request", node |-> n, token |-> token,
                     outcome |-> from_request(n, token).outcome,
                     logged_out |-> token \in tok.logged_out]]
    /\ UNCHANGED tokRest

\* a cluster with empty caches
InitToken ==
    /\ PriorIdle
    /\ NsRaceIdle
    /\ LocalCacheIdle
    /\ DiscMapIdle
    /\ HopIdle
    /\ tok = [pc |-> "up", log |-> <<>>,
              applied |-> [n \in Nodes |-> 0],
              cache |-> [n \in Nodes |-> <<>>],
              logged_out |-> {}, last |-> [op |-> "none"]]

NextToken ==
    \/ TokLogin
    \/ \E n \in Nodes : TokApply(n)
    \/ \E n \in Nodes, token \in BearerTokens : TokLogout(n, token)
    \/ \E n \in Nodes, token \in BearerTokens : TokRequest(n, token)

SpecToken == InitToken /\ [][NextToken]_vars

(***************************************************************************)
(* Properties of the discovery engine (SpecDisc)                           *)
(***************************************************************************)
\* the same reads as a function of the instance map, to speak about the
\* map before and after a step
InstancesIn(map, service_id) ==
    IF service_id \in DOMAIN map THEN map[service_id] ELSE <<>>
InstanceIdsIn(map, service_id) ==
    {inst.id : inst \in Range(InstancesIn(map, service_id))}
AvailableIdsIn(map, service_id) ==
    {inst.id : inst \in Range(SelectSeq(InstancesIn(map, service_id), is_available))}
InstanceByIdIn(map, service_id, instance_id) ==
    CHOOSE inst \in Range(InstancesIn(map, service_id)) : inst.id = instance_id
StatusTag(inst) == inst.status[1]

\* C1: starting from Up with no further heartbeat, the k-th heartbeat-check
\* tick that finds the heartbeat timed out (k = 1, 2, 3) leaves the instance
\* in Sick(k) with lost_heartbeats = k, the check tick after Sick(3) sets it
\* to Down, and the next cleanup tick removes it from the instance list.
C1_CheckTickStep ==
    resp'.op = "heartbeat_check" =>
        \A s \in DOMAIN services : \A i \in 1..Len(services[s]) :
            LET before == services[s][i]
                after == services'[s][i]
                timed_out == is_heartbeat_timeout(before, HEARTBEAT_TIMEOUT)
            IN  /\ (before.status = Up /\ timed_out) =>
                       (after.status = Sick(1) /\ after.lost_heartbeats = 1)
                /\ \A k \in 1..2 :
                       (before.status = Sick(k) /\ timed_out) =>
                           (after.status = Sick(k + 1) /\ after.lost_heartbeats = k + 1)
                /\ before.status = Sick(3) => after.status = Down
C1_CleanupStep ==
    resp'.op = "cleanup" =>
        \A s \in DOMAIN services : \A i \in 1..Len(services[s]) :
            services[s][i].status = Down =>
                services[s][i].id \notin {x.id : x \in Range(services'[s])}
C1_SickDownRemoved == [][C1_CheckTickStep /\ C1_CleanupStep]_vars

\* C2: a heartbeat applied to a known instance in Sick(n), n in 1..3, sets
\* its status to Up, updates last_heartbeat and resets lost_heartbeats to 0.
C2_HeartbeatStep ==
    (/\ resp'.op = "heartbeat"
     /\ resp'.result = "Ok"
     /\ resp'.was \in {Sick(1), Sick(2), Sick(3)}) =>
        LET after == InstanceByIdIn(services', resp'.service, resp'.id)
        IN  /\ after.status = Up
            /\ after.last_heartbeat = now
            /\ after.lost_heartbeats = 0
C2_HeartbeatRecovers == [][C2_HeartbeatStep]_vars

\* C3: the available-instances query of a service returns exactly the
\* instances of that service whose status is Up, and never one that is
\* Ready, Sick, Down or Offline.
C3_AvailableIsUp ==
    resp.op = "available" =>
        /\ \A inst \in Range(InstancesOf(resp.service)) :
               (inst \in Range(resp.body)) <=> (StatusTag(inst) = "Up")
        /\ \A inst \in Range(resp.body) :
               /\ inst \in Range(InstancesOf(resp.service))
               /\ StatusTag(inst) \notin {"Ready", "Sick", "Down", "Offline"}
\* a query answered with an Up instance while another instance is Sick
C3_Witness ==
    /\ resp.op = "available"
    /\ Len(resp.body) = 1
    /\ \E inst \in Range(InstancesOf(resp.service)) : StatusTag(inst) = "Sick"

\* C4: a newly registered instance is Ready and is not returned by the
\* available-instances query before its first heartbeat is applied; once
\* its first heartbeat is applied it is returned.
C4_RegisterStep ==
    resp'.op = "register_instance" =>
        /\ InstanceByIdIn(services', resp'.service, resp'.id).status = Ready
        /\ resp'.id \notin AvailableIdsIn(services', resp'.service)
C4_BecomesAvailableStep ==
    \A s \in ReqServices : \A id \in InstanceIdsIn(services', s) :
        (id \notin AvailableIdsIn(services, s) /\ id \in AvailableIdsIn(services', s)) =>
            (/\ resp'.op = "heartbeat"
             /\ resp'.result = "Ok"
             /\ resp'.service = s
             /\ resp'.id = id)
C4_FirstHeartbeatStep ==
    (/\ resp'.op = "heartbeat"
     /\ resp'.result = "Ok") =>
        resp'.id \in AvailableIdsIn(services', resp'.service)
C4_ReadyUntilHeartbeat ==
    [][C4_RegisterStep /\ C4_BecomesAvailableStep /\ C4_FirstHeartbeatStep]_vars
\* the first heartbeat of a Ready instance has been applied and it is returned
C4_Witness ==
    /\ resp.op = "heartbeat"
    /\ resp.result = "Ok"
    /\ resp.was = Ready
    /\ resp.id \in AvailableIdsIn(services, resp.service)


(***************************************************************************)
(* Properties of the event handler, the admin client and the restarts      *)
(***************************************************************************)
\* the log indexes of the events of a set or of the range of a queue
IndexesOf(events) == {e.index : e \in events}

\* no event of node n waits and no handler of node n runs
Quiet(n) == bus[n] = <<>> /\ handling[n] = {}

\* the tables after the handlers of the first k entries of the log ran in
\* the order of the log
RECURSIVE TablesAfter(_)
TablesAfter(k) ==
    IF k = 0 THEN EmptyDb
    ELSE IF SendsEvent(log[k])
         THEN handle_raft_request(TablesAfter(k - 1), log[k], 0).db
         ELSE TablesAfter(k - 1)

\* C5 - on every replica the handlers of the commands run in the order of the
\* log: when the handler of entry j starts, no handler of another entry is
\* still running, every event that waits belongs to a later entry, and the
\* events that wait are in the order of the log.
C5_HandlerStartStep ==
    \A n \in Nodes :
        \A e \in handling'[n] \ handling[n] :
            /\ handling[n] = {}
            /\ \A q \in Range(bus'[n]) : q.index > e.index
            /\ \A i, j \in DOMAIN bus'[n] : i < j => bus'[n][i].index < bus'[n][j].index
C5_HandlersInLogOrder == [][C5_HandlerStartStep]_vars
C5_Witness ==
    \E n \in membership :
        /\ \E e \in handling[n] : e.index >= 2
        /\ bus[n] # <<>>
        /\ \E r \in db[n].config_history : TRUE

\* C6 - once a config upsert has returned success on the leader, get_config
\* of that key on the leader returns the content that was written.
C6_ReadYourWrites ==
    (client.pc = "returned" /\ client.op = "upsert" /\ client.result = "Ok") =>
        LET c == get_config(Leader, client.key[1], client.key[2])
        IN  c # None /\ c.content = client.content

\* C7 - whenever a stored snapshot records the applied index L, the tables
\* hold the effect of every entry up to L, and once a replica has applied
\* the whole log and is quiet its tables hold the effect of every committed
\* command.
C7_DurableInsideApply ==
    \A n \in membership :
        /\ snapshot[n] # None =>
              \A k \in 1..snapshot[n].last_applied_log :
                  SendsEvent(log[k]) =>
                      k \notin IndexesOf(Range(bus[n])) \cup IndexesOf(handling[n])
        /\ (Quiet(n) /\ sm[n].last_applied_log = Len(log)) =>
              db[n] = TablesAfter(Len(log))

\* C9 - an upsert that repeats the upsert that just returned success submits
\* no command: it returns Ok at once and the log stays as it is.
C9_SecondUpsertStep ==
    (client.pc = "returned" /\ client' # client /\ client'.op = "upsert"
        /\ client'.repeat) =>
        /\ log' = log
        /\ client'.pc = "returned"
        /\ client'.result = "Ok"
        /\ ~client'.submitted
C9_SecondUpsertSubmitsNothing == [][C9_SecondUpsertStep]_vars

\* C10 - two replicas that have applied the same log prefix and are quiet
\* hold config_history rows under the same ids.
C10_SameHistoryIds ==
    \A n1, n2 \in membership :
        (/\ Quiet(n1) /\ Quiet(n2)
         /\ sm[n1].last_applied_log = Len(log)
         /\ sm[n2].last_applied_log = Len(log)) =>
            {r.id_ : r \in db[n1].config_history} = {r.id_ : r \in db[n2].config_history}

\* C8 - applying a log prefix twice leaves the KV map and the config,
\* config_history, namespace and service tables as applying it once does.
C8_ReplayIdempotent ==
    (replay.pass = 2 /\ replay.pos = Len(log)) => StoredState(Leader) = replay.once

(***************************************************************************)
(* Properties of the namespace manager                                     *)
(***************************************************************************)
\* the stored row of the namespace a response names
NsRowOf(r) == SelectNamespace(db[Leader], r.namespace_id)

\* C11 - auth returns true exactly when the namespace does not require auth
\* or its stored token equals the presented token; for a namespace with
\* is_auth and a token T every other presented value, an absent one
\* included, yields false.
C11_AuthStep ==
    (ns_resp' # ns_resp /\ ns_resp'.op = "auth") =>
        LET row == NsRowOf(ns_resp')
        IN  /\ ns_resp'.result =
                  (row = None \/ ~row.is_auth \/ row.auth_token = ns_resp'.token)
            /\ (row # None /\ row.is_auth /\ row.auth_token # ns_resp'.token) =>
                  ns_resp'.result = FALSE
C12_ConfigGetStep ==
    (ns_resp' # ns_resp /\ ns_resp'.op = "config_get") =>
        LET row == NsRowOf(ns_resp')
        IN  (row # None /\ row.is_auth /\ row.auth_token # NoToken) =>
                IF ns_resp'.token = row.auth_token
                THEN ns_resp'.status = "Ok"
                ELSE ns_resp'.status = "Unauthorized" /\ ns_resp'.data = None
C12_TokenGate == [][C12_ConfigGetStep]_vars

\* C13 - a request to delete the namespace public is rejected before
\* anything is replicated: no command is added to the log and the tables
\* stay as they are.
C13_DeletePublicStep ==
    (ns_resp' # ns_resp /\ ns_resp'.op = "delete_namespace" /\ ns_resp'.id = "public") =>
        /\ ns_resp'.result = "Err"
        /\ log' = log
        /\ db' = db
C13_DeletePublicRejected == [][C13_DeletePublicStep]_vars
C13_Witness ==
    /\ ns_resp.op = "delete_namespace"
    /\ ns_resp.id = "public"
    /\ ns_resp.result = "Err"
    /\ log # <<>>

\* C14 - the namespace public exists in every reachable state, and no step
\* removes a config of the namespace public because a DeleteNamespace
\* command reached the handler.
C14_PublicExists ==
    \A n \in membership : \E r \in db[n].namespace : r.id = "public"

\* C15 - with the config cache enabled, once the handlers of the applied
\* config commands of a replica have run, get_config of a key on that
\* replica returns the row as it is now stored (none after a delete), never
\* a value that was cached before.
C15_CacheFollowsApply ==
    \A n \in membership : \A k \in ReqConfigKeys :
        (enable_cache_config /\ Quiet(n)) =>
            get_config(n, k[1], k[2]) = SelectConfig(db[n], k[1], k[2])

(***************************************************************************)
(* Properties of the long poll                                             *)
(***************************************************************************)
\* the changes of the watched namespace that were published while the
\* request was subscribed, less than the timeout after it started
MatchingChanges ==
    {i \in DOMAIN published :
        /\ published[i].event.namespace_id = watcher.namespace_id
        /\ published[i].in_time}

\* C16 - a watch of namespace N returns the changed config_id of a change of
\* N that was published while it waited, whatever events of other namespaces
\* were published before, and it returns empty only when no change of N was
\* published during the 29 s.
C16_WatchReturnsChange ==
    watcher.pc = "done" =>
        /\ watcher.result = <<>> => MatchingChanges = {}
        /\ watcher.result # <<>> =>
              \E i \in MatchingChanges : watcher.result = <<published[i].event.config_id>>

(***************************************************************************)
(* Properties of the config client                                         *)
(***************************************************************************)
\* C17 - with a watcher that never reports a change, the flattened view of
\* the client equals the merge of the server's current contents of the
\* subscribed configs within one compensating-refresh period plus one
\* second after any change.
C17_ViewConverges == stale_age <= COMPENSATE_PERIOD + 1

(***************************************************************************)
(* Properties of the /write endpoint (SpecForward)                         *)
(***************************************************************************)
\* C18: a POST /write sent to a follower that knows the leader has the
\* effect on the log of the same command sent to the leader, and answers
\* with the status and body that the leader answers with
C18_ForwardedWriteAsDirect ==
    (fwd.pc = "done" /\ fwd.node # Leader /\ fwd.leader_node # <<>>) =>
        /\ log = Append(fwd.log_before, fwd.req)
        /\ fwd.response = fwd.leader_response

(***************************************************************************)
(* Properties of the log store (SpecStore)                                 *)
(***************************************************************************)
\* C19: what append, truncate, purge and save_vote reported as done is
\* durable: the store opened again after a crash holds every appended entry
\* and no truncated or purged one, and returns the saved vote and the
\* recorded last_purged_log_id
C19_AckedIsDurable ==
    store_resp.op = "crash" =>
        /\ StoredEntries(tree) = acked.logs
        /\ read_vote(tree) = acked.vote
        /\ get_log_state(tree).last_purged_log_id = acked.last_purged_log_id

\* C20: purge(log_id) removes exactly the entries with index <= log_id.index
\* and leaves the others as they were; get_log_state then reports
\* last_purged_log_id = log_id, and last_log_id = log_id when no entry remains
C20_PurgeFrame ==
    store_resp.op = "purge" =>
        LET before == store_resp.before.logs
            kept == { k \in DOMAIN before : from_be_bytes(k) > store_resp.log_id.index }
        IN  /\ DOMAIN tree.logs = kept
            /\ \A k \in kept : tree.logs[k] = before[k]
            /\ get_log_state(tree).last_purged_log_id = <<store_resp.log_id>>
            /\ kept = {} => get_log_state(tree).last_log_id = <<store_resp.log_id>>

\* a purge that removed entries and left entries
C20_Witness ==
    /\ store_resp.op = "purge"
    /\ DOMAIN tree.logs # {}
    /\ DOMAIN tree.logs # DOMAIN store_resp.before.logs

\* a purge after which no entry remains
C20_WitnessEmpty ==
    /\ store_resp.op = "purge"
    /\ DOMAIN tree.logs = {}
    /\ DOMAIN store_resp.before.logs # {}

\* C21: truncate(log_id) removes exactly the entries with index >=
\* log_id.index; the entries with a smaller index, the saved vote and
\* last_purged_log_id are as they were
C21_TruncateFrame ==
    store_resp.op = "truncate" =>
        LET before == store_resp.before
            entries == try_get_log_entries(before, 0, MaxIndex + 1)
        IN  /\ try_get_log_entries(tree, 0, MaxIndex + 1) =
                   SelectSeq(entries, LAMBDA e : e.log_id.index < store_resp.log_id.index)
            /\ \A k \in DOMAIN tree.logs : tree.logs[k] = before.logs[k]
            /\ read_vote(tree) = read_vote(before)
            /\ get_log_state(tree).last_purged_log_id =
                   get_log_state(before).last_purged_log_id

\* a truncate that removed entries and left entries, a vote being saved
C21_Witness ==
    /\ store_resp.op = "truncate"
    /\ DOMAIN tree.logs # {}
    /\ DOMAIN tree.logs # DOMAIN store_resp.before.logs
    /\ read_vote(tree) # <<>>

(***************************************************************************)
(* Properties of the snapshots and of GET /read (SpecSnap)                 *)
(***************************************************************************)
\* the positions in the written snapshots of a result of get_current_snapshot
PositionsOf(result) ==
    { i \in 1..Len(snap_hist.written) : <<snap_hist.written[i]>> = result }

C30_ReadServesStateMachine ==
    (snap_resp.op = "read" /\ ~snap_resp.installing) =>
        snap_resp.value = snap_resp.state_machine

(***************************************************************************)
(* Properties of the registration of instances (SpecDisc)                  *)
(***************************************************************************)
\* C23: registering the same (service_id, ip, port) again yields the same
\* instance id, the hex MD5 of "ip:port", and afterwards the instance list
\* of the service holds exactly one instance with that id
C23_RegisterStep ==
    resp'.op = "register_instance" =>
        LET instance == resp'.body
            same == { i \in 1..Len(services'[resp'.service]) :
                         services'[resp'.service][i].id = resp'.id }
        IN  /\ resp'.id = generate_id(instance.ip, instance.port)
            /\ Cardinality(same) = 1
            /\ \A i \in same : services'[resp'.service][i] = instance
            /\ \A i \in 1..Len(InstancesOf(resp'.service)) :
                  LET old == InstancesOf(resp'.service)[i]
                  IN  (old.ip = instance.ip /\ old.port = instance.port)
                          => old.id = resp'.id

C23_ReRegisterIdempotent == [][C23_RegisterStep]_vars

\* an instance was registered again while another instance is listed
C23_Witness ==
    /\ resp.op = "register_instance"
    /\ resp.replaced = 1
    /\ Len(services[resp.service]) = 2

(***************************************************************************)
(* Properties of the deletion of a namespace (SpecCascade)                 *)
(***************************************************************************)
\* the last applied command about namespace id is its deletion, and every
\* handler of node n has run
NamespaceDeletedOn(n, id) ==
    /\ Quiet(n)
    /\ \E i \in 1..sm[n].last_applied_log :
          /\ log[i].cmd = "DeleteNamespace"
          /\ log[i].id = id
          /\ \A j \in (i + 1)..sm[n].last_applied_log :
                ~(log[j].cmd \in {"SetConfig", "UpdateConfig"}
                  /\ log[j].entry.namespace_id = id)

\* C24: after DeleteNamespace{id} has been applied on a replica, no config
\* of namespace id remains there and get_config(id, c) returns none
C24_NamespaceCascade ==
    NamespaceDeletedOn(Leader, CascadeNamespace) =>
        /\ \A r \in db[Leader].config : r.namespace_id # CascadeNamespace
        /\ get_config(Leader, CascadeNamespace, CascadeConfig) = None

(***************************************************************************)
(* Properties of the watch task of the config client (SpecReload)          *)
(***************************************************************************)
\* the watch task has taken a response that carries a changed config id
ResponseTaken == wtask.pc = "poll" /\ wtask.pending # <<>> /\ wtask'.pending = <<>>

\* a listener is called in this step
ListenerCalled == Len(notified') = Len(notified) + 1

\* C25: when the watch response carries a changed config id the client
\* fetches every subscribed config, rebuilds the flattened view from them
\* and swaps it in, and only then calls the listeners of the changed id;
\* they are called with the map that AppConfig::get serves at that time
C25_ReloadStep ==
    /\ ResponseTaken =>
          /\ ServerView # YamlError
          /\ view' = ServerView.configs
          /\ wtask'.pc = "notify"
          /\ ~ListenerCalled
    /\ ListenerCalled =>
          /\ wtask.pc = "notify"
          /\ notified'[Len(notified')].config_id = wtask.changed[1]
          /\ notified'[Len(notified')].changed_configs = view

C25_SwapThenNotify == [][C25_ReloadStep]_vars

(***************************************************************************)
(* Properties of the heartbeat task of the client (SpecBeat)               *)
(***************************************************************************)
\* the instances of the client in an instance map
OwnInstances(map) ==
    IF BeatService \in DOMAIN map
    THEN {i \in 1..Len(map[BeatService]) :
             map[BeatService][i].id = gen_instance_id(BeatEndpoint[1], BeatEndpoint[2])}
    ELSE {}

\* the server answers a heartbeat of the client in this step
BeatAnswered == hb.pc = "tick" /\ hb'.next # hb.next /\ resp'.op = "heartbeat"

\* C26: a heartbeat answered NoInstanceFound makes the client register its
\* instance again at once, before its next heartbeat: the instance is Ready
\* again, and the next heartbeat that the server applies makes it Up and
\* available
C26_BeatStep ==
    /\ (BeatAnswered /\ resp'.result = "NoInstanceFound") => hb'.pc = "reregister"
    /\ hb.pc = "reregister" =>
          /\ now' = now
          /\ ~BeatAnswered
          /\ hb' # hb =>
                /\ hb'.pc = "tick"
                /\ hb'.next > now'
                /\ OwnInstances(services') # {}
                /\ \A i \in OwnInstances(services') :
                      services'[BeatService][i].status = Ready
    /\ (hb.reregistered /\ BeatAnswered) =>
          /\ resp'.result = "Ok"
          /\ OwnInstances(services') # {}
          /\ \A i \in OwnInstances(services') :
                /\ services'[BeatService][i].status = Up
                /\ is_available(services'[BeatService][i])

Members(server_addr) ==
    IF server_addr.kind = "Single" THEN {server_addr.address}
    ELSE Range(server_addr.addresses)

\* C27: every outbound call of a client goes to an address picked for that
\* very call: the single configured address, or a member of the cluster
\* list, and every retry after a failure picks again, the retries of the
\* long poll of the config watch too
C27_AddressPickedPerCall ==
    net.last # NoCall =>
        /\ net.last.address \in Members(net.server_addr)
        /\ (net.server_addr.kind = "Cluster" /\ net.last.retry) =>
              net.last.built = net.last.attempt

(***************************************************************************)
(* Properties of the flattening and of the merge (SpecYaml)                *)
(***************************************************************************)
Absent == [kind |-> "absent"]

\* the node of a value at a path of mapping keys
RECURSIVE NodeAt(_, _)
NodeAt(value, path) ==
    IF path = <<>> THEN value
    ELSE IF value.kind # "map" THEN Absent
    ELSE LET hits == {i \in 1..Len(value.entries) : value.entries[i].key = Head(path)}
         IN  IF hits = {} THEN Absent
             ELSE NodeAt(value.entries[CHOOSE i \in hits : TRUE].value, Tail(path))

\* the paths of mapping keys to the nodes of a value, and to its leaves
RECURSIVE NodePaths(_)
NodePaths(value) ==
    {<<>>} \cup
    IF value.kind = "map"
    THEN UNION {{<<value.entries[i].key>> \o p : p \in NodePaths(value.entries[i].value)} :
                    i \in 1..Len(value.entries)}
    ELSE {}
LeafPaths(value) == {p \in NodePaths(value) : NodeAt(value, p).kind = "leaf"}

\* the keys of a path joined with dots
RECURSIVE DotJoin(_)
DotJoin(path) ==
    IF path = <<>> THEN ""
    ELSE IF Len(path) = 1 THEN key_str(path[1])
    ELSE key_str(path[1]) \o "." \o DotJoin(Tail(path))

\* C28: flattening a document yields exactly one key for every leaf that is
\* not a mapping, the key is the path of mapping keys from the root to the
\* leaf joined with dots, it holds the leaf, and there are no other keys;
\* mappings yield no key
C28_FlattenOneKeyPerLeaf ==
    yaml.pc = "flat" =>
        LET paths == LeafPaths(yaml.content)
        IN  /\ DOMAIN yaml.configs = {DotJoin(p) : p \in paths}
            /\ Cardinality(DOMAIN yaml.configs) = Cardinality(paths)
            /\ \A p \in paths : yaml.configs[DotJoin(p)] = NodeAt(yaml.content, p).v

\* a document sets a scalar at a proper prefix of the path
CutsPath(document, path) ==
    \E n \in 0..(Len(path) - 1) : NodeAt(document, SubSeq(path, 1, n)).kind = "leaf"

\* the documents that say something about a path
Touching(documents, path) ==
    {j \in 1..Len(documents) :
        NodeAt(documents[j], path) # Absent \/ CutsPath(documents[j], path)}

\* what the last document that says something about a path says
LastDefined(documents, path) ==
    LET J == Touching(documents, path)
    IN  IF J = {} THEN Absent
        ELSE NodeAt(documents[CHOOSE j \in J : \A k \in J : k <= j], path)

\* C29: the merge of the documents in list order holds at every key path what
\* the last document that defines it holds there: a scalar of a later
\* document replaces what was there, mappings on both sides are merged key
\* by key, and a key that only an earlier document has is kept
C29_MergeLastWins ==
    yaml.pc # "parsed" =>
        \A p \in NodePaths(yaml.content)
                    \cup UNION {NodePaths(yaml.documents[j]) : j \in DOMAIN yaml.documents} :
            LET want == LastDefined(yaml.documents, p)
                got == NodeAt(yaml.content, p)
            IN  IF want.kind = "map" THEN got.kind = "map" ELSE got = want

\* the merge of [{a: 1, b: {x: 1}}, {b: {x: 2, y: 3}}] is {a: 1, b: {x: 2, y: 3}}
C29_Witness ==
    /\ yaml.pc = "merged"
    /\ yaml.documents =
          << YamlMap(<<YamlEntry(StringKey("a"), YamlLeaf("1")),
                       YamlEntry(StringKey("b"),
                          YamlMap(<<YamlEntry(StringKey("x"), YamlLeaf("1"))>>))>>),
             YamlMap(<<YamlEntry(StringKey("b"),
                          YamlMap(<<YamlEntry(StringKey("x"), YamlLeaf("2")),
                                    YamlEntry(StringKey("y"), YamlLeaf("3"))>>))>>) >>
    /\ yaml.content =
          YamlMap(<<YamlEntry(StringKey("a"), YamlLeaf("1")),
                    YamlEntry(StringKey("b"),
                       YamlMap(<<YamlEntry(StringKey("x"), YamlLeaf("2")),
                                 YamlEntry(StringKey("y"), YamlLeaf("3"))>>))>>)

(***************************************************************************)
(* Properties of the namespace cache next to an apply (SpecNsRace)         *)
(***************************************************************************)
\* no apply and no read is in progress
RaceQuiet ==
    /\ nsrace.apply.pc = "idle"
    /\ \A r \in Readers : nsrace.reader[r].pc = "idle"

\* C31: whatever the interleaving of get_namespace calls with the apply of
\* an UpsertNamespace or DeleteNamespace, once the apply and the reads in
\* flight have finished get_namespace returns the namespace as the table
\* stores it
C31_NoStaleNamespace ==
    RaceQuiet =>
        get_namespace(nsrace.db, nsrace.cache, RaceNamespace)
            = SelectNamespace(nsrace.db, RaceNamespace)

(***************************************************************************)
(* Properties of the local cache (SpecLocalCache)                          *)
(***************************************************************************)
\* C32: a get after remove(key) has returned, with no set(key) in between,
\* returns none, also when the disk write that an earlier set(key) spawned
\* runs after the remove
C32_RemovedStaysRemoved ==
    (lcache.pc = "open" /\ lcache.last.op = "get" /\ lcache.last.removed)
        => lcache.last.value = <<>>

(***************************************************************************)
(* Properties of the map of discovery sub-maps (SpecDiscMap)               *)
(***************************************************************************)
\* the instances of a namespace that an access starting now would see
VisibleNow(namespace_id) ==
    IF namespace_id \in DOMAIN dmgr.discoveries
    THEN SubMapIds(dmgr.heap[dmgr.discoveries[namespace_id]])
    ELSE {}

\* C33: a namespace has one Discovery sub-map: one set of timers is started
\* for it, and an instance registered through any access is seen by every
\* access that starts later
C33_OneSubMapPerNamespace ==
    dmgr.pc = "up" =>
        /\ Cardinality(dmgr.timers) <= Cardinality(DOMAIN dmgr.discoveries)
        /\ \A r \in dmgr.registered : r[2] \in VisibleNow(r[1])

(***************************************************************************)
(* Properties of a sick instance that beats again (SpecDisc)               *)
(***************************************************************************)
\* the instance was Sick(n) for an n in 1..3 and a heartbeat within the
\* timeout has made it Up since
BeatsAgain(inst) ==
    /\ inst.status = Up
    /\ inst.lost_heartbeats \in 1..MAX_LOST_HEARTBEATS
    /\ ~is_heartbeat_timeout(inst, HEARTBEAT_TIMEOUT)

\* a tick of one of the two timers leaves every such instance in the map, Up
C34_TickStep ==
    resp'.op \in {"heartbeat_check", "cleanup"} =>
        \A s \in DOMAIN services :
            \A i \in 1..Len(services[s]) :
                BeatsAgain(services[s][i]) =>
                    \E j \in 1..Len(services'[s]) :
                        /\ services'[s][j].id = services[s][i].id
                        /\ services'[s][j].status = Up

\* C34: an instance that was Sick(n), n in 1..3, and has a heartbeat applied
\* before each heartbeat-check tick and within the timeout stays Up: no tick
\* sets it to Down and the cleanup tick does not remove it
C34_SickBeatingStaysUp == [][C34_TickStep]_vars

(***************************************************************************)
(* Properties of a refresh with failed fetches (SpecRefresh)               *)
(***************************************************************************)
\* a step of the compensate task that has slept its period
RefreshStep == comp.alive /\ comp.slept = COMPENSATE_PERIOD /\ comp' # comp

\* a refresh leaves the view as it is or makes it the merge of the contents
\* of all subscribed configs
C35_RefreshStep ==
    RefreshStep =>
        \/ view' = view
        \/ ServerView # YamlError /\ view' = ServerView.configs

\* C35: the view is the merge of one content for each subscribed config: a
\* refresh in which a fetch fails leaves the view unchanged and never swaps
\* in the merge of a part of the configs
C35_NoPartialView == [][C35_RefreshStep]_vars

(***************************************************************************)
(* Properties of the loop of the watch task (SpecWatchTask)                *)
(***************************************************************************)
\* C36: the watch task never stops: after an empty response, after an error
\* of the watch request and after an error of the reload that follows a
\* change notification it goes on to poll
C36_WatcherNeverStops == wtask.pc # "dead"

(***************************************************************************)
(* Properties of the path of a forwarded write (SpecHops)                  *)
(***************************************************************************)
\* C37: a write is forwarded at most once: the node that receives a
\* forwarded write answers it and does not forward it again, whatever the
\* views of the leader are
C37_AtMostOneForward == hop.pc # "none" => hop.forwards <= 1

(***************************************************************************)
(* Properties of logout (SpecToken)                                        *)
(***************************************************************************)
\* C38: after logout for a token has returned, an admin request with that
\* token is Unauthorized on every node, also on the nodes that hold the
\* token from the replicated CacheWrite of the login
C38_LoggedOutEverywhere ==
    (tok.pc = "up" /\ tok.last.op = "request" /\ tok.last.logged_out)
        => tok.last.outcome = "Unauthorized"

(***************************************************************************)
(* Properties of the errors of the handlers (SpecHandlerErrors)            *)
(***************************************************************************)
\* the handler of the event e on the node n ends with an error in this step
HandlerErrorStep(n, e) ==
    /\ e \in handling[n]
    /\ handling'[n] = handling[n] \ {e}
    /\ ~handle_raft_request(db[n], e.req, clock).ok

\* nothing of the error reaches Raft or another replica, and the entries
\* that are left can be applied
C39_ErrorStep ==
    /\ \A n \in Nodes :
           \A e \in handling[n] :
               HandlerErrorStep(n, e) =>
                   /\ sm' = sm
                   /\ log' = log
                   /\ e.index <= sm[n].last_applied_log
                   /\ bus' = bus
                   /\ db' = db
                   /\ \A m \in Nodes \ {n} :
                          /\ handling'[m] = handling[m]
                          /\ config_cache'[m] = config_cache[m]
    /\ \A n \in membership :
           sm[n].last_applied_log < Len(log) => ENABLED Apply(n)

\* C39: the error of a handler is logged and goes no further: Raft does
\* not see it, last_applied_log is past the entry and stays there, the later
\* entries are applied on that replica, and the other replicas are as they
\* were
C39_HandlerErrorOnlyLogged == [][C39_ErrorStep]_vars

\* a second SetConfig of a key has failed in the handler of a replica that
\* has applied and handled the entry after it, while the other replica has
\* applied nothing
C39_Witness ==
    /\ Len(log) = 3
    /\ log[1].cmd = "SetConfig"
    /\ log[2].cmd = "SetConfig"
    /\ log[3].cmd = "DeleteConfig"
    /\ sm["n2"].last_applied_log = 3
    /\ bus["n2"] = <<>>
    /\ handling["n2"] = {}
    /\ db["n2"].config = {}
    /\ sm["n1"].last_applied_log = 0

(***************************************************************************)
(* Properties of the recovery of a config (SpecRecovery)                   *)
(***************************************************************************)
\* the recovery of a history row has returned Ok and every entry of the
\* log has been applied and handled
RecoveryDone ==
    /\ client.pc = "returned"
    /\ client.op = "recovery"
    /\ client.result = "Ok"
    /\ sm[Leader].last_applied_log = Len(log)
    /\ bus[Leader] = <<>>
    /\ handling[Leader] = {}

\* C40: the recovery of a history row h of a config makes the content of h
\* the current content of the config and adds one history row to the rows
\* the config had before the call
C40_RecoveryAddsHistory ==
    RecoveryDone =>
        /\ SelectConfig(db[Leader], client.key[1], client.key[2]) # None
        /\ SelectConfig(db[Leader], client.key[1], client.key[2]).content
               = client.content
        /\ Cardinality(HistoryOf(db[Leader], client.key[1], client.key[2]))
               = client.rows_before + 1

====
